---------------------------- MODULE Spec2Model ----------------------------
(***************************************************************************)
(* German-English bilingual reader: the LLM service layer                  *)
(* (backend/llm_services) and the Flask handlers that use it               *)
(* (backend/app.py).                                                       *)
(*                                                                         *)
(* Text.  A Python str is a sequence of symbols.  A symbol is a single     *)
(* character ("c", "{", "\"", " ", "\n") or an indivisible run of          *)
(* characters with no meaning to any of the operations below ("Hi.").      *)
(* Speaker names are spelled one letter per symbol, since str.upper()      *)
(* acts per character.                                                     *)
(*                                                                         *)
(* Python dicts are functions whose domain is the set of keys present,     *)
(* so that `"k" in d` is `"k" \in DOMAIN d`.                               *)
(***************************************************************************)
EXTENDS Integers, Sequences, FiniteSets, TLC

(***************************************************************************)
(* str helpers                                                             *)
(***************************************************************************)
NL == "\n"
QUOTE == "\""
ESC_NL == "\\n"

\* characters str.strip() removes and json skips between tokens
Whitespace == {" ", NL, "\t"}

\* first index >= i of t that holds no whitespace (Len(t)+1 when none)
SkipWs(t, i) ==
    CHOOSE j \in i..(Len(t) + 1) :
        /\ \A k \in i..(j - 1) : t[k] \in Whitespace
        /\ (j = Len(t) + 1 \/ t[j] \notin Whitespace)

\* str.strip()
strip(t) ==
    LET a == SkipWs(t, 1)
        b == IF a > Len(t) THEN 0
             ELSE CHOOSE j \in a..Len(t) :
                     /\ t[j] \notin Whitespace
                     /\ \A k \in (j + 1)..Len(t) : t[k] \in Whitespace
    IN  IF a > Len(t) THEN <<>> ELSE SubSeq(t, a, b)

LowerCase == <<"a","b","c","d","e","f","g","h","i","j","k","l","m",
               "n","o","p","q","r","s","t","u","v","w","x","y","z">>
UpperCase == <<"A","B","C","D","E","F","G","H","I","J","K","L","M",
               "N","O","P","Q","R","S","T","U","V","W","X","Y","Z">>

\* str.upper() on one character
upper_char(c) ==
    IF \E i \in 1..26 : LowerCase[i] = c
    THEN UpperCase[CHOOSE i \in 1..26 : LowerCase[i] = c]
    ELSE c

\* str.upper()
upper(t) == [i \in 1..Len(t) |-> upper_char(t[i])]

\* str.lower()
lower_char(c) ==
    IF \E i \in 1..26 : UpperCase[i] = c
    THEN LowerCase[CHOOSE i \in 1..26 : UpperCase[i] = c]
    ELSE c
lower(t) == [i \in 1..Len(t) |-> lower_char(t[i])]

\* number of line breaks in a str
RECURSIVE count_nl(_)
count_nl(t) ==
    IF t = <<>> THEN 0
    ELSE (IF Head(t) = NL THEN 1 ELSE 0) + count_nl(Tail(t))

(***************************************************************************)
(* JSON values and json.loads                                              *)
(***************************************************************************)
JStr(s)  == [k |-> "str",  v |-> s]
JList(l) == [k |-> "list", v |-> l]
JObj(f)  == [k |-> "obj",  v |-> f]
JNum(n)  == [k |-> "num",  v |-> <<n>>]
JNull    == [k |-> "null", v |-> <<>>]

EmptyDict == <<>>
KEY == <<"english_sentences">>

Digits == {"0", "1", "42"}

ParseFail == [ok |-> FALSE, val |-> JNull, next |-> 0]
ParseOk(v, n) == [ok |-> TRUE, val |-> v, next |-> n]

\* the escape sequences of a JSON string literal, decoded
decode_char(c) == IF c = ESC_NL THEN NL ELSE c

\* a string literal whose opening quote is at t[i]
ParseString(t, i) ==
    IF \E j \in (i + 1)..Len(t) : t[j] = QUOTE
    THEN LET j == CHOOSE j \in (i + 1)..Len(t) :
                     t[j] = QUOTE /\ \A k \in (i + 1)..(j - 1) : t[k] # QUOTE
             body == SubSeq(t, i + 1, j - 1)
         IN  \* strict mode: a raw control character inside a literal is an error
             IF \E k \in 1..Len(body) : body[k] \in {NL, "\t"}
             THEN ParseFail
             ELSE ParseOk(JStr([k \in 1..Len(body) |-> decode_char(body[k])]), j + 1)
    ELSE ParseFail

RECURSIVE ParseValue(_, _), ParseElems(_, _, _), ParseMembers(_, _, _)

\* a JSON value starting at or after t[i]
ParseValue(t, i) ==
    LET j == SkipWs(t, i) IN
    IF j > Len(t) THEN ParseFail
    ELSE IF t[j] = QUOTE THEN ParseString(t, j)
    ELSE IF t[j] \in Digits THEN ParseOk(JNum(t[j]), j + 1)
    ELSE IF t[j] = "null" THEN ParseOk(JNull, j + 1)
    ELSE IF t[j] = "[" THEN
        LET a == SkipWs(t, j + 1) IN
        IF a <= Len(t) /\ t[a] = "]" THEN ParseOk(JList(<<>>), a + 1)
        ELSE ParseElems(t, j + 1, <<>>)
    ELSE IF t[j] = "{" THEN
        LET a == SkipWs(t, j + 1) IN
        IF a <= Len(t) /\ t[a] = "}" THEN ParseOk(JObj(EmptyDict), a + 1)
        ELSE ParseMembers(t, j + 1, EmptyDict)
    ELSE ParseFail

\* the elements of an array, after "[" or ","
ParseElems(t, i, acc) ==
    LET e == ParseValue(t, i) IN
    IF ~e.ok THEN ParseFail
    ELSE LET j == SkipWs(t, e.next) IN
         IF j > Len(t) THEN ParseFail
         ELSE IF t[j] = "," THEN ParseElems(t, j + 1, Append(acc, e.val))
         ELSE IF t[j] = "]" THEN ParseOk(JList(Append(acc, e.val)), j + 1)
         ELSE ParseFail

\* the members of an object, after "{" or ","; a repeated key keeps the last value
ParseMembers(t, i, acc) ==
    LET a == SkipWs(t, i) IN
    IF a > Len(t) \/ t[a] # QUOTE THEN ParseFail
    ELSE LET key == ParseString(t, a) IN
         IF ~key.ok THEN ParseFail
         ELSE LET c == SkipWs(t, key.next) IN
              IF c > Len(t) \/ t[c] # ":" THEN ParseFail
              ELSE LET e == ParseValue(t, c + 1) IN
                   IF ~e.ok THEN ParseFail
                   ELSE LET j == SkipWs(t, e.next)
                            d == (key.val.v :> e.val) @@ acc
                        IN  IF j > Len(t) THEN ParseFail
                            ELSE IF t[j] = "," THEN ParseMembers(t, j + 1, d)
                            ELSE IF t[j] = "}" THEN ParseOk(JObj(d), j + 1)
                            ELSE ParseFail

\* json.loads(t): ok is FALSE where Python raises json.JSONDecodeError
json_loads(t) ==
    LET r == ParseValue(t, 1) IN
    IF r.ok /\ SkipWs(t, r.next) > Len(t) THEN r ELSE ParseFail

(***************************************************************************)
(* GeminiService._extract_json_from_response                               *)
(***************************************************************************)
\* three backticks, and three backticks followed by the word json
FENCE == "BACKTICKS"
FENCE_JSON == "BACKTICKSjson"
NoMatch == [found |-> FALSE, text |-> <<>>, end |-> 0]

\* the fenced-block pattern (an opening json fence, optional whitespace, the
\* shortest brace-delimited group that is followed by optional whitespace and
\* a closing fence), anchored at t[i]; the closing fence may be the first
\* three characters of another opening fence
FencedAt(t, i) ==
    IF t[i] # FENCE_JSON THEN NoMatch
    ELSE LET a == SkipWs(t, i + 1)
             Closes(k) == /\ t[k] = "}"
                          /\ SkipWs(t, k + 1) <= Len(t)
                          /\ t[SkipWs(t, k + 1)] \in {FENCE, FENCE_JSON}
         IN  IF a > Len(t) \/ t[a] # "{" THEN NoMatch
             ELSE IF \E k \in (a + 1)..Len(t) : Closes(k)
             THEN LET k == CHOOSE k \in (a + 1)..Len(t) :
                              Closes(k) /\ \A m \in (a + 1)..(k - 1) : ~Closes(m)
                  IN  [found |-> TRUE, text |-> SubSeq(t, a, k),
                       end |-> SkipWs(t, k + 1)]
             ELSE NoMatch

\* the raw-object pattern (an opening brace, a brace-free run that holds the
\* quoted key english_sentences, a closing brace), anchored at t[i]
RawObjectAt(t, i) ==
    IF t[i] # "{" THEN NoMatch
    ELSE IF \E e \in (i + 1)..Len(t) : t[e] \in {"{", "}"}
    THEN LET e == CHOOSE e \in (i + 1)..Len(t) :
                     t[e] \in {"{", "}"} /\ \A m \in (i + 1)..(e - 1) : t[m] \notin {"{", "}"}
         IN  IF /\ t[e] = "}"
                /\ \E m \in (i + 1)..(e - 3) :
                       t[m] = QUOTE /\ <<t[m + 1]>> = KEY /\ t[m + 2] = QUOTE
             THEN [found |-> TRUE, text |-> SubSeq(t, i, e), end |-> e]
             ELSE NoMatch
    ELSE NoMatch

\* re.findall: the groups of the non-overlapping matches, left to right
RECURSIVE findall_fenced(_, _), findall_raw(_, _)
findall_fenced(t, pos) ==
    IF \E i \in pos..Len(t) : FencedAt(t, i).found
    THEN LET i == CHOOSE i \in pos..Len(t) :
                     FencedAt(t, i).found /\ \A m \in pos..(i - 1) : ~FencedAt(t, m).found
             mt == FencedAt(t, i)
         IN  <<mt.text>> \o findall_fenced(t, mt.end + 1)
    ELSE <<>>

findall_raw(t, pos) ==
    IF \E i \in pos..Len(t) : RawObjectAt(t, i).found
    THEN LET i == CHOOSE i \in pos..Len(t) :
                     RawObjectAt(t, i).found /\ \A m \in pos..(i - 1) : ~RawObjectAt(t, m).found
             mt == RawObjectAt(t, i)
         IN  <<mt.text>> \o findall_raw(t, mt.end + 1)
    ELSE <<>>

\* the first match that json.loads accepts (the for/try/continue loops)
FirstValid(matches) ==
    IF \E i \in 1..Len(matches) : json_loads(matches[i]).ok
    THEN [found |-> TRUE,
          text |-> matches[CHOOSE i \in 1..Len(matches) :
                       /\ json_loads(matches[i]).ok
                       /\ \A m \in 1..(i - 1) : ~json_loads(matches[m]).ok],
          end |-> 0]
    ELSE NoMatch

\* a variant that tries the raw-object pattern before the fenced blocks
FirstOf_raw_first(fenced, raw, response_text) ==
    IF FirstValid(raw).found THEN FirstValid(raw).text
    ELSE IF FirstValid(fenced).found THEN FirstValid(fenced).text
    ELSE strip(response_text)

\* the result, given the matches of the two patterns
FirstOf(fenced, raw, response_text) ==
    IF FirstValid(fenced).found THEN FirstValid(fenced).text
    ELSE IF FirstValid(raw).found THEN FirstValid(raw).text
    ELSE strip(response_text)

_extract_json_from_response(response_text) ==
    CHOOSE out \in { FirstOf(fenced, raw, response_text) :
                        fenced \in {findall_fenced(response_text, 1)},
                        raw \in {findall_raw(response_text, 1)} } : TRUE

(***************************************************************************)
(* The two provider clients (GPTService, GeminiService).  A client is the  *)
(* record [provider, model, inst]: the class, the model name it was built  *)
(* with and which instance it is.                                          *)
(***************************************************************************)
\* provider identifiers and names are str values, one letter per symbol
OPENAI == <<"o","p","e","n","a","i">>
GOOGLE == <<"g","o","o","g","l","e">>
GEMINI == <<"g","e","m","i","n","i">>

IsGPT(self) == self.provider = OPENAI

\* GPTService.get_provider_name / GeminiService.get_provider_name
get_provider_name(self) == IF IsGPT(self) THEN OPENAI ELSE GEMINI

\* GPTService.get_provider_info / GeminiService.get_provider_info
get_provider_info(self) ==
    IF IsGPT(self)
    THEN [provider |-> OPENAI, model |-> self.model,
          description |-> <<"OpenAI ", self.model>>]
    ELSE [provider |-> GOOGLE, model |-> self.model,
          description |-> <<"Google ", self.model>>]

\* what _simple_translate returns for the text the API answered with
_simple_translate(self, text) == strip(text)

\* what _json_translate returns for the text the API answered with
_json_translate(self, text) ==
    IF IsGPT(self) THEN text ELSE _extract_json_from_response(text)

\* GPTService overrides generate_speech; GeminiService inherits the base one
supports_tts(self) == IsGPT(self)

(***************************************************************************)
(* LLMFactory.  env is the process environment: a variable is UNSET        *)
(* (os.getenv gives None), the empty string, or a key.                     *)
(***************************************************************************)
UNSET == "<unset>"
EnvValues == {UNSET, "", "key"}

GPT_MODEL == "gpt-4o-mini"
GEMINI_MODEL == "gemini-1.5-flash"

NoService == [provider |-> <<>>, model |-> "", inst |-> 0]
NoInfo == [provider |-> <<>>, model |-> "", description |-> <<>>]
NoError == [exc |-> "", msg |-> <<>>]

\* `not api_key`
Missing(api_key) == api_key \in {UNSET, ""}

\* a factory that only tests whether the credential variable is set
create_service_unchecked(e, provider, inst, built) ==
    IF provider = OPENAI THEN
        IF e.OPENAI_API_KEY = UNSET
        THEN [ok |-> FALSE, service |-> NoService,
              err |-> [exc |-> "ValueError", msg |-> <<"OPENAI_API_KEY environment variable is required for OpenAI provider">>]]
        ELSE IF ~built
        THEN [ok |-> FALSE, service |-> NoService,
              err |-> [exc |-> "Exception", msg |-> <<"client construction failed">>]]
        ELSE [ok |-> TRUE, err |-> NoError,
              service |-> [provider |-> OPENAI, model |-> GPT_MODEL, inst |-> inst]]
    ELSE IF provider = GOOGLE THEN
        IF e.GEMINI_API_KEY = UNSET
        THEN [ok |-> FALSE, service |-> NoService,
              err |-> [exc |-> "ValueError", msg |-> <<"GEMINI_API_KEY environment variable is required for Gemini provider">>]]
        ELSE IF ~built
        THEN [ok |-> FALSE, service |-> NoService,
              err |-> [exc |-> "Exception", msg |-> <<"client construction failed">>]]
        ELSE [ok |-> TRUE, err |-> NoError,
              service |-> [provider |-> GOOGLE, model |-> GEMINI_MODEL, inst |-> inst]]
    ELSE [ok |-> FALSE, service |-> NoService,
          err |-> [exc |-> "ValueError", msg |-> <<"Unsupported LLM provider: ">> \o provider]]

\* LLMFactory.create_service(provider); built tells whether the client's
\* constructor returns (TRUE) or raises (FALSE); inst numbers the new object
create_service(e, provider, inst, built) ==
    IF provider = OPENAI THEN
        IF Missing(e.OPENAI_API_KEY)
        THEN [ok |-> FALSE, service |-> NoService,
              err |-> [exc |-> "ValueError", msg |-> <<"OPENAI_API_KEY environment variable is required for OpenAI provider">>]]
        ELSE IF ~built
        THEN [ok |-> FALSE, service |-> NoService,
              err |-> [exc |-> "Exception", msg |-> <<"client construction failed">>]]
        ELSE [ok |-> TRUE, err |-> NoError,
              service |-> [provider |-> OPENAI, model |-> GPT_MODEL, inst |-> inst]]
    ELSE IF provider = GOOGLE THEN
        IF Missing(e.GEMINI_API_KEY)
        THEN [ok |-> FALSE, service |-> NoService,
              err |-> [exc |-> "ValueError", msg |-> <<"GEMINI_API_KEY environment variable is required for Gemini provider">>]]
        ELSE IF ~built
        THEN [ok |-> FALSE, service |-> NoService,
              err |-> [exc |-> "Exception", msg |-> <<"client construction failed">>]]
        ELSE [ok |-> TRUE, err |-> NoError,
              service |-> [provider |-> GOOGLE, model |-> GEMINI_MODEL, inst |-> inst]]
    ELSE [ok |-> FALSE, service |-> NoService,
          err |-> [exc |-> "ValueError", msg |-> <<"Unsupported LLM provider: ">> \o provider]]

\* a check for `api_key is not None` in place of `not api_key`
test_provider_availability_set(e, provider) ==
    IF provider = OPENAI THEN e.OPENAI_API_KEY # UNSET
    ELSE IF provider = GOOGLE THEN e.GEMINI_API_KEY # UNSET
    ELSE FALSE

\* LLMFactory.test_provider_availability(provider)
test_provider_availability(e, provider) ==
    IF provider = OPENAI THEN ~Missing(e.OPENAI_API_KEY)
    ELSE IF provider = GOOGLE THEN ~Missing(e.GEMINI_API_KEY)
    ELSE FALSE

\* LLMFactory.detect_available_providers(): a list
detect_available_providers(e) ==
    (IF test_provider_availability(e, OPENAI) THEN <<OPENAI>> ELSE <<>>)
    \o (IF test_provider_availability(e, GOOGLE) THEN <<GOOGLE>> ELSE <<>>)

\* the lines test_provider_availability prints while
\* detect_available_providers runs (factory.py:78-88)
availability_log(e) ==
    << IF test_provider_availability(e, OPENAI)
       THEN <<"OpenAI configured (API key found)">>
       ELSE <<"OpenAI not available: OPENAI_API_KEY environment variable is required">>,
       IF test_provider_availability(e, GOOGLE)
       THEN <<"Google/Gemini configured (API key found)">>
       ELSE <<"Google/Gemini not available: GEMINI_API_KEY environment variable is required">> >>

\* `x in list`
In(x, list) == \E i \in 1..Len(list) : list[i] = x

\* LLMFactory.get_preferred_provider(available_providers); <<>> is None
get_preferred_provider(available_providers) ==
    IF In(OPENAI, available_providers) THEN OPENAI
    ELSE IF In(GOOGLE, available_providers) THEN GOOGLE
    ELSE <<>>

\* app.py module start-up: the service the process starts with
startup_service(e, built) ==
    LET preferred_provider == get_preferred_provider(detect_available_providers(e))
        made == create_service(e, preferred_provider, 0, built)
    IN  IF preferred_provider # <<>> /\ made.ok THEN made.service ELSE NoService

(***************************************************************************)
(* TextManager: the sample texts on disk.  Each text has its metadata.json *)
(* and its page files; page n of the API is file page-(n+1).               *)
(***************************************************************************)
Sentence(type, text) == [type |-> type, text |-> text]
Untyped(text) == [text |-> text]

FaustPage1 ==
    [page_number |-> 1,
     paragraphs |-> <<
        [sentences |-> << Sentence("stage_direction", <<"Nacht.", NL, "Faust unruhig.">>),
                          Sentence("speaker_name", <<"c","h","o","r">>) >>],
        [sentences |-> << Sentence("dialogue", <<"Habe nun, ach!", NL, "Juristerei">>) >>] >>]

FaustPage2 ==
    [page_number |-> 2,
     paragraphs |-> <<
        [sentences |-> << Sentence("speaker_name", <<"F","A","U","S","T">>),
                          Untyped(<<"Da steh ich nun.">>) >>],
        [sentences |-> << >>],
        [sentences |-> << Sentence("speaker_name", <<"A","l","l","e">>),
                          Sentence("narration", <<"Er geht.">>) >>] >>]

\* a cast list: speaker names only
CastPage ==
    [page_number |-> 1,
     paragraphs |-> <<
        [sentences |-> << Sentence("speaker_name", <<"C","H","O","R">>),
                          Sentence("speaker_name", <<"S","t","i","m","m","e">>),
                          Sentence("speaker_name", <<"s","p","r","e","c","h","e","r">>) >>],
        [sentences |-> << Sentence("speaker_name", <<"C","H","O","R","U","S">>),
                          Sentence("speaker_name", <<"C","h","o","r"," ">>),
                          Sentence("verse", <<"O Mond!">>) >>] >>]

\* page files that are valid JSON but not well-formed pages
NoParagraphsPage == [page_number |-> 2]
NoTextPage ==
    [page_number |-> 3,
     paragraphs |-> <<
        [sentences |-> << Sentence("narration", <<"Es war einmal.">>) >>],
        [sentences |-> << [type |-> "narration"] >>] >>]

\* a one-page text: a title and one verse
LiedPage ==
    [page_number |-> 1,
     paragraphs |-> << [sentences |-> << Sentence("verse", <<"Es war ein Koenig", NL, "in Thule">>) >>] >>]
LiedMetadata == [title |-> <<"Der Koenig in Thule">>]

FaustMetadata ==
    [title |-> <<"Faust">>, author |-> <<"Goethe">>,
     genre |-> <<"drama">>, description |-> <<"Eine Tragoedie">>]
CastMetadata == [author |-> <<"Anonym">>, year |-> <<"1808">>]

Library ==
    [faust |-> [metadata |-> FaustMetadata,
                files |-> <<FaustPage1, FaustPage2>>],
     cast  |-> [metadata |-> CastMetadata,
                files |-> <<CastPage, NoParagraphsPage, NoTextPage>>],
     lied  |-> [metadata |-> LiedMetadata,
                files |-> <<LiedPage>>]]

(***************************************************************************)
(* State.                                                                  *)
(*   env               the process environment (the credentials)           *)
(*   llm_service       app.py's global: the active client or None          *)
(*   current_provider  app.py's global: the active client's info or None   *)
(*   created           how many clients switch_provider has constructed    *)
(*   req               one frame per request thread of the server: where   *)
(*                     it is (pc), its locals, the objects it holds        *)
(*                     (heap), the provider calls it has issued (calls)    *)
(*                     and what it answered (result)                       *)
(***************************************************************************)
VARIABLES env, llm_service, current_provider, created, req

vars == <<env, llm_service, current_provider, created, req>>

\* request threads the server runs at once, and clients built after start-up
MaxReq == 2
MaxInst == 2

Req == 1..MaxReq
\* a server that handles one request at a time
SeqReq == {1}

NoResult == [outcome |-> "none", status |-> 0, exc |-> "", error |-> <<>>, body |-> EmptyDict]
\* a handler's `return jsonify(body), status`
Http(status, body) ==
    [outcome |-> "http", status |-> status, exc |-> "", error |-> <<>>, body |-> body]
\* a handler's `return jsonify({'error': error}), status`
HttpError(status, error) ==
    [outcome |-> "http", status |-> status, exc |-> "", error |-> error, body |-> EmptyDict]
\* a call of the package that returns / raises to its caller
Returned(body) ==
    [outcome |-> "returned", status |-> 0, exc |-> "", error |-> <<>>, body |-> body]
Raised(err) ==
    [outcome |-> "raised", status |-> 0, exc |-> err.exc, error |-> err.msg, body |-> EmptyDict]

IdleFrame ==
    [pc |-> "idle", op |-> "", arg |-> EmptyDict, client |-> NoService,
     book |-> [py |-> "none", d |-> EmptyDict], heap |-> EmptyDict,
     response |-> EmptyDict, phase |-> "", p |-> 0, s |-> 0,
     calls |-> <<>>, loc |-> EmptyDict, result |-> NoResult, log |-> <<>>]

\* print(line) while the request is handled: log holds the lines written to
\* the standard output, the only log the program keeps
Log(f, lines) == [f EXCEPT !.log = @ \o lines]

Init ==
    /\ env \in [OPENAI_API_KEY : EnvValues, GEMINI_API_KEY : EnvValues]
    /\ \E built \in BOOLEAN :
          /\ llm_service = startup_service(env, built)
          /\ current_provider =
                IF llm_service = NoService THEN NoInfo ELSE get_provider_info(llm_service)
    /\ created = 0
    /\ req = [r \in Req |-> IdleFrame]

Free(r) == req[r].pc \in {"idle", "done"}

\* the frame of a request that has ended with result res
Done(f, res) == [f EXCEPT !.pc = "done", !.result = res]

\* an exception that leaves the running method: the handler's `except Exception`
\* turns it into a response; a direct caller of the package sees it raised
Propagate(f, err) ==
    IF f.op = "translate_page"
        THEN Done(f, HttpError(500, <<"Page translation failed: ">> \o err.msg))
    ELSE IF f.op = "chat"
        THEN Done(f, HttpError(500, <<"Chat failed: ">> \o err.msg))
    ELSE IF f.op = "dictionary"
        THEN Done(Log(f, <<<<"Dictionary lookup error: ">> \o err.msg>>),
                  HttpError(500, <<"Dictionary lookup failed: ">> \o err.msg))
    ELSE IF f.op = "tts"
        THEN Done(Log(f, <<<<"TTS Error: ">> \o err.msg>>),
                  HttpError(500, <<"Text-to-speech failed: ">> \o err.msg))
    ELSE Done(f, Raised(err))

\* dict with key k set to v
Put(d, k, v) == (k :> v) @@ d

(***************************************************************************)
(* translate_page (app.py) and LLMService.translate (base.py)              *)
(***************************************************************************)
\* the handler up to the translation request: validation and loading
translate_page(r, data) ==
    /\ Free(r)
    /\ LET f == [IdleFrame EXCEPT !.op = "translate_page", !.arg = data]
           file == data.page_number + 1
       IN  req' = [req EXCEPT ![r] =
              IF llm_service = NoService
                  THEN Done(f, HttpError(503, <<"LLM service not available">>))
              ELSE IF data.text_name = ""
                  THEN Done(f, HttpError(400, <<"No text name provided">>))
              ELSE IF data.text_name \notin DOMAIN Library
                  THEN Done(f, HttpError(404, <<"Structured text not found">>))
              ELSE IF file \notin DOMAIN Library[data.text_name].files
                  THEN Done(f, HttpError(404, <<"Page file not found">>))
              ELSE [f EXCEPT
                      !.pc = "dispatch",
                      !.heap = [metadata |-> Library[data.text_name].metadata,
                                page_data |-> Library[data.text_name].files[file]],
                      !.book = [py |-> "dict",
                                d |-> [metadata |-> "metadata", page_data |-> "page_data"]]]]
    /\ UNCHANGED <<env, llm_service, current_provider, created>>

\* a caller of the package about to call translate(text) on the active service;
\* text is [py, d]: a dict d, or some other Python value
call_translate(r, text) ==
    /\ Free(r)
    /\ llm_service # NoService
    /\ req' = [req EXCEPT ![r] =
          [IdleFrame EXCEPT
              !.op = "translate", !.arg = text, !.pc = "dispatch",
              !.heap = IF text.py = "dict" THEN text.d ELSE EmptyDict,
              !.book = [py |-> text.py,
                        d |-> IF text.py = "dict"
                              THEN [k \in DOMAIN text.d |-> k] ELSE EmptyDict]]]
    /\ UNCHANGED <<env, llm_service, current_provider, created>>

\* json.loads(json.dumps(x)) of a page: an equal value, rebuilt level by level
json_roundtrip(x) ==
    [k \in DOMAIN x |->
        IF k # "paragraphs" THEN x[k]
        ELSE [i \in DOMAIN x[k] |->
                [j \in DOMAIN x[k][i] |->
                    IF j # "sentences" THEN x[k][i][j]
                    ELSE [n \in DOMAIN x[k][i][j] |->
                            [m \in DOMAIN x[k][i][j][n] |-> x[k][i][j][n][m]]]]]]

\* a translation that works on the caller's own object: no copy is made
alias_target(src) == src

\* the object the response's "page_data" refers to: the round trip yields a new
\* object ("copy"), distinct from the caller's (src)
copy_target(src) == "copy"

\* a sentence replaced by its translation alone: text and type are lost
SetTranslationOnly(page, p, s, eng_sentences) ==
    [page EXCEPT !.paragraphs[p].sentences[s] = [english_translation |-> eng_sentences]]

\* `sentence["english_translation"] = eng_sentences` on sentence s of paragraph p
SetTranslation(page, p, s, eng_sentences) ==
    [page EXCEPT !.paragraphs[p].sentences[s] = Put(@, "english_translation", eng_sentences)]

\* _translate_speaker_name(text)
common_translations ==
    (<<"C","H","O","R">> :> <<"C","H","O","R","U","S">>)
    @@ (<<"A","L","L","E">> :> <<"A","L","L">>)
    @@ (<<"S","T","I","M","M","E">> :> <<"V","O","I","C","E">>)
    @@ (<<"S","P","R","E","C","H","E","R">> :> <<"N","A","R","R","A","T","O","R">>)

\* a lookup that compares the name as written, without upper()
_translate_speaker_name_exact(text) ==
    LET translated == IF text \in DOMAIN common_translations
                      THEN common_translations[text] ELSE text
    IN  JList(<<JStr(translated)>>)

_translate_speaker_name(text) ==
    LET translated == IF upper(text) \in DOMAIN common_translations
                      THEN common_translations[upper(text)] ELSE text
    IN  JList(<<JStr(translated)>>)

Value(v) == [raised |-> FALSE, err |-> NoError, val |-> v]
Raise(exc, msg) == [raised |-> TRUE, err |-> [exc |-> exc, msg |-> msg], val |-> JNull]

\* _translate_stage_direction_sentences, from the response on (the try block):
\* JSONDecodeError and KeyError are caught, nothing else
_translate_stage_direction_sentences(text, response) ==
    LET result == json_loads(response) IN
    IF ~result.ok THEN Value(JList(<<JStr(text)>>))
    ELSE IF result.val.k # "obj"
        THEN Raise("AttributeError", <<"object has no attribute 'get'">>)
    ELSE IF KEY \in DOMAIN result.val.v THEN Value(result.val.v[KEY])
    ELSE Value(JList(<<JStr(text)>>))

\* a variant that trims every entry of the provider's list
_translate_and_split_trimmed(response) ==
    LET data == json_loads(response) IN
    IF data.ok /\ data.val.k = "obj" /\ KEY \in DOMAIN data.val.v
    THEN LET L == data.val.v[KEY] IN
         IF L.k = "list"
         THEN Value(JList([i \in DOMAIN L.v |->
                  IF L.v[i].k = "str" THEN JStr(strip(L.v[i].v)) ELSE L.v[i]]))
         ELSE Value(L)
    ELSE Value(JList(<<JStr(strip(response))>>))

\* a variant whose fallback keeps the response as it is
_translate_and_split_untrimmed(response) ==
    LET data == json_loads(response) IN
    IF data.ok /\ data.val.k = "obj" /\ KEY \in DOMAIN data.val.v
    THEN Value(data.val.v[KEY])
    ELSE Value(JList(<<JStr(response)>>))

\* _translate_and_split_with_context, from the response on (the try block):
\* every Exception is caught
_translate_and_split_with_context(response) ==
    LET data == json_loads(response) IN
    IF data.ok /\ data.val.k = "obj" /\ KEY \in DOMAIN data.val.v
    THEN Value(data.val.v[KEY])
    ELSE Value(JList(<<JStr(strip(response))>>))

\* `sentence.get("type", "narration")`
sentence_type(sentence) ==
    IF "type" \in DOMAIN sentence THEN sentence.type ELSE "narration"

\* a provider call as the client sends it; answer is the text the provider
\* answers with, response what the client's method returns for it
Call(kind, client, max_tokens, temperature, field, p, s, text) ==
    [kind |-> kind, client |-> client, max_tokens |-> max_tokens,
     temperature |-> temperature, field |-> field, p |-> p, s |-> s, text |-> text,
     state |-> "sent", answer |-> <<>>, response |-> <<>>, cause |-> <<>>]

\* the client blocks in a provider call
Issue(f, call) == [f EXCEPT !.pc = "wait", !.calls = Append(@, call)]

Pending(f) == f.calls[Len(f.calls)]
Waiting(r, kind) == req[r].pc = "wait" /\ Pending(req[r]).kind = kind
Answered(f, answer, response) ==
    [f EXCEPT !.pc = "run",
              !.calls[Len(f.calls)].state = "returned",
              !.calls[Len(f.calls)].answer = answer,
              !.calls[Len(f.calls)].response = response]

\* the response as the caller receives it: references replaced by the objects
Resolve(f) ==
    [k \in DOMAIN f.response |->
        IF k \in {"page_data", "metadata"} THEN f.heap[f.response[k]] ELSE f.response[k]]

\* `return response` reaching the caller of translate
ReturnResponse(f) ==
    IF f.op = "translate_page" THEN Done(f, Http(200, Resolve(f)))
    ELSE Done(f, Returned(Resolve(f)))

\* KeyError('key')
KeyError(key) == [exc |-> "KeyError", msg |-> <<"'", key, "'">>]

\* a test that accepts every dict
is_dict(text) == text.py = "dict"

\* translate's test of its argument: `isinstance(text, dict) and "page_data" in text`
is_book_data(text) == text.py = "dict" /\ "page_data" \in DOMAIN text.d

\* app.py:244 reads the global and calls translate on it; translate checks its
\* argument; _translate_book_data builds the response (base.py:46-53)
dispatch(r) ==
    /\ req[r].pc = "dispatch"
    /\ LET f == [req[r] EXCEPT !.client = llm_service]
           book_data == f.book
       IN  req' = [req EXCEPT ![r] =
              IF ~is_book_data(book_data)
              THEN Propagate(f, [exc |-> "ValueError",
                      msg |-> <<"Expected structured book data with 'page_data' field">>])
              ELSE IF "page_data" \notin DOMAIN book_data.d
              THEN Propagate(f, KeyError("page_data"))
              ELSE LET src == book_data.d.page_data
                       dst == copy_target(src)
                       h1 == Put(f.heap, dst, json_roundtrip(f.heap[src]))
                   IN  [f EXCEPT
                          !.pc = "run",
                          !.response = [page_data |-> dst,
                                        provider |-> get_provider_name(f.client)],
                          !.heap = IF "metadata" \in DOMAIN book_data.d
                                   THEN Put(h1, "translated_metadata", EmptyDict) ELSE h1,
                          !.phase = IF "metadata" \in DOMAIN book_data.d
                                    THEN "title" ELSE "paragraph",
                          !.p = 1]]
    /\ UNCHANGED <<env, llm_service, current_provider, created>>

\* _translate_metadata_field(text): the call it sends
_translate_metadata_field(client, field, text) ==
    Call("simple", client, 200, 0, field, 0, 0, text)

\* _translate_book_data, lines 52-66: one metadata field per step
metadata_step(r) ==
    /\ req[r].pc = "run"
    /\ req[r].phase \in {"title", "author", "rest"}
    /\ LET f == req[r]
           original_metadata == f.heap[f.book.d.metadata]
           translated_metadata == f.heap["translated_metadata"]
           verbatim == [k \in DOMAIN original_metadata \cap {"description", "genre"} |->
                           original_metadata[k]]
       IN  req' = [req EXCEPT ![r] =
              IF f.phase = "title" THEN
                  IF "title" \in DOMAIN original_metadata
                  THEN Issue(f, _translate_metadata_field(f.client, "title", original_metadata.title))
                  ELSE [f EXCEPT !.phase = "author"]
              ELSE IF f.phase = "author" THEN
                  IF "author" \in DOMAIN original_metadata
                  THEN Issue(f, _translate_metadata_field(f.client, "author", original_metadata.author))
                  ELSE [f EXCEPT !.phase = "rest"]
              ELSE [f EXCEPT
                      !.heap = Put(@, "translated_metadata", verbatim @@ translated_metadata),
                      !.response = Put(@, "metadata", "translated_metadata"),
                      !.phase = "paragraph"]]
    /\ UNCHANGED <<env, llm_service, current_provider, created>>

\* the provider answers a _simple_translate call with text
metadata_returns(r, text) ==
    /\ Waiting(r, "simple")
    /\ LET f == req[r]
           value == _simple_translate(f.client, text)
           g == Answered(f, text, value)
       IN  req' = [req EXCEPT ![r] =
              [g EXCEPT
                  !.heap = Put(@, "translated_metadata",
                               Put(f.heap["translated_metadata"], Pending(f).field, value)),
                  !.phase = IF Pending(f).field = "title" THEN "author" ELSE "rest"]]
    /\ UNCHANGED <<env, llm_service, current_provider, created>>

\* _translate_book_data, lines 72-77 and 101: the next paragraph, or the return
paragraph_step(r) ==
    /\ req[r].pc = "run"
    /\ req[r].phase = "paragraph"
    /\ LET f == req[r]
           page_data == f.heap[f.response.page_data]
       IN  req' = [req EXCEPT ![r] =
              IF "paragraphs" \notin DOMAIN page_data
                  THEN Propagate(f, KeyError("paragraphs"))
              ELSE IF f.p > Len(page_data.paragraphs)
                  THEN ReturnResponse(f)
              ELSE LET paragraph == page_data.paragraphs[f.p] IN
                   IF "sentences" \notin DOMAIN paragraph
                       THEN Propagate(f, KeyError("sentences"))
                   ELSE IF \E n \in DOMAIN paragraph.sentences :
                               "text" \notin DOMAIN paragraph.sentences[n]
                       THEN Propagate(f, KeyError("text"))
                   ELSE [f EXCEPT !.phase = "sentence", !.s = 1]]
    /\ UNCHANGED <<env, llm_service, current_provider, created>>

\* a variant that looks the active client up again for every sentence
sentence_call_global(client, type, p, s, german_text) ==
    IF type = "stage_direction"
    THEN Call("json", llm_service, 300, 0, "sentence", p, s, german_text)
    ELSE Call("json", llm_service, 400, 1, "sentence", p, s, german_text)

\* a variant that sends every sentence with the defaults of _json_translate
sentence_call_uniform(client, type, p, s, german_text) ==
    Call("json", client, 400, 1, "sentence", p, s, german_text)

\* the call a sentence of the given type is translated with (lines 122, 212)
sentence_call(client, type, p, s, german_text) ==
    IF type = "stage_direction"
    THEN Call("json", client, 300, 0, "sentence", p, s, german_text)
    ELSE Call("json", client, 400, 1, "sentence", p, s, german_text)

\* a variant that sends the sentences of every type to the provider
sentence_step_every_type(r) ==
    /\ req[r].pc = "run"
    /\ req[r].phase = "sentence"
    /\ LET f == req[r]
           ref == f.response.page_data
           sentences == f.heap[ref].paragraphs[f.p].sentences
       IN  req' = [req EXCEPT ![r] =
              IF f.s > Len(sentences)
                  THEN [f EXCEPT !.phase = "paragraph", !.p = f.p + 1]
              ELSE LET sentence == sentences[f.s] IN
                   Issue(f, sentence_call(f.client, sentence_type(sentence),
                                          f.p, f.s, sentence.text))]
    /\ UNCHANGED <<env, llm_service, current_provider, created>>

\* _translate_book_data, lines 80-99: the next sentence of the paragraph
sentence_step(r) ==
    /\ req[r].pc = "run"
    /\ req[r].phase = "sentence"
    /\ LET f == req[r]
           ref == f.response.page_data
           sentences == f.heap[ref].paragraphs[f.p].sentences
       IN  req' = [req EXCEPT ![r] =
              IF f.s > Len(sentences)
                  THEN [f EXCEPT !.phase = "paragraph", !.p = f.p + 1]
              ELSE LET sentence == sentences[f.s] IN
                   IF sentence_type(sentence) = "speaker_name"
                   THEN [f EXCEPT
                           !.heap[ref] = SetTranslation(@, f.p, f.s,
                                            _translate_speaker_name(sentence.text)),
                           !.s = f.s + 1]
                   ELSE Issue(f, sentence_call(f.client, sentence_type(sentence),
                                               f.p, f.s, sentence.text))]
    /\ UNCHANGED <<env, llm_service, current_provider, created>>

\* the translation of a sentence, given the response of _json_translate
eng_sentences_of(sentence, response) ==
    IF sentence_type(sentence) = "stage_direction"
    THEN _translate_stage_direction_sentences(sentence.text, response)
    ELSE _translate_and_split_with_context(response)

\* the provider answers a _json_translate call with text
sentence_returns(r, text) ==
    /\ Waiting(r, "json")
    /\ \E response \in {_json_translate(req[r].client, text)} :
       \E eng_sentences \in
             {eng_sentences_of(req[r].heap[req[r].response.page_data]
                                  .paragraphs[req[r].p].sentences[req[r].s], response)} :
          LET f == req[r]
              ref == f.response.page_data
              g == Answered(f, text, response)
          IN  req' = [req EXCEPT ![r] =
                 IF eng_sentences.raised THEN Propagate(g, eng_sentences.err)
                 ELSE [g EXCEPT
                         !.heap[ref] = SetTranslation(@, f.p, f.s, eng_sentences.val),
                         !.s = f.s + 1]]
    /\ UNCHANGED <<env, llm_service, current_provider, created>>

\* the exception a failed provider call raises in the calling method: chat and
\* speech calls wrap it (_chat_with_llm, GPTService.generate_speech)
provider_error(call, cause) ==
    [exc |-> "Exception",
     msg |-> IF call.kind = "chat"
                 THEN (IF IsGPT(call.client) THEN <<"GPT chat failed: ">>
                       ELSE <<"Gemini chat failed: ">>) \o cause
             ELSE IF call.kind = "speech" THEN <<"OpenAI TTS failed: ">> \o cause
             ELSE cause]

\* a variant that survives a failed translation call: the German text stands in
\* for the translation and the pass goes on
provider_fails_fallback(r, cause) ==
    /\ req[r].pc = "wait"
    /\ LET f == req[r]
           call == Pending(f)
           g == [f EXCEPT !.calls[Len(f.calls)].state = "failed",
                          !.calls[Len(f.calls)].cause = cause]
       IN  req' = [req EXCEPT ![r] =
              IF call.kind = "json"
              THEN [g EXCEPT !.pc = "run",
                             !.heap[f.response.page_data] =
                                 SetTranslation(@, f.p, f.s, JList(<<JStr(call.text)>>)),
                             !.s = f.s + 1]
              ELSE IF call.kind = "simple"
              THEN [g EXCEPT !.pc = "run",
                             !.heap = Put(@, "translated_metadata",
                                          Put(f.heap["translated_metadata"], call.field, call.text)),
                             !.phase = IF call.field = "title" THEN "author" ELSE "rest"]
              ELSE Propagate(g, provider_error(call, cause))]
    /\ UNCHANGED <<env, llm_service, current_provider, created>>

\* a provider call fails (network, auth, quota): nothing in the engine catches it
provider_fails(r, cause) ==
    /\ req[r].pc = "wait"
    /\ LET f == req[r]
           g == [f EXCEPT !.calls[Len(f.calls)].state = "failed",
                          !.calls[Len(f.calls)].cause = cause]
       IN  req' = [req EXCEPT ![r] = Propagate(g, provider_error(Pending(f), cause))]
    /\ UNCHANGED <<env, llm_service, current_provider, created>>

(***************************************************************************)
(* chat, dictionary_lookup, text_to_speech (app.py)                        *)
(***************************************************************************)
\* `d.get(k, '')`
Get(d, k) == IF k \in DOMAIN d THEN d[k] ELSE <<>>

\* the handler up to the try block
chat(r, data) ==
    /\ Free(r)
    /\ LET f == [IdleFrame EXCEPT !.op = "chat", !.arg = data] IN
       req' = [req EXCEPT ![r] =
          IF llm_service = NoService
              THEN Done(f, HttpError(503, <<"LLM service not available">>))
          ELSE IF Get(data, "question") = <<>>
              THEN Done(f, HttpError(400, <<"No question provided">>))
          ELSE [f EXCEPT !.pc = "call"]]
    /\ UNCHANGED <<env, llm_service, current_provider, created>>

dictionary_lookup(r, data) ==
    /\ Free(r)
    /\ LET f == [IdleFrame EXCEPT !.op = "dictionary", !.arg = data] IN
       req' = [req EXCEPT ![r] =
          IF llm_service = NoService
              THEN Done(f, HttpError(503, <<"LLM service not available">>))
          ELSE IF DOMAIN data = {} \/ "word" \notin DOMAIN data
              THEN Done(f, HttpError(400, <<"Word or phrase is required">>))
          ELSE IF strip(data.word) = <<>>
              THEN Done(f, HttpError(400, <<"Word or phrase cannot be empty">>))
          ELSE [f EXCEPT !.pc = "call",
                         !.loc = [word |-> strip(data.word),
                                  context |-> strip(Get(data, "context"))]]]
    /\ UNCHANGED <<env, llm_service, current_provider, created>>

valid_voices == {"alloy", "echo", "fable", "onyx", "nova", "shimmer"}

\* speed is in hundredths: 0.25 is 25, 4.0 is 400
text_to_speech(r, data) ==
    /\ Free(r)
    /\ LET f == [IdleFrame EXCEPT !.op = "tts", !.arg = data]
           text == strip(Get(data, "text"))
           voice == IF "voice" \in DOMAIN data THEN data.voice ELSE "alloy"
           speed == IF "speed" \in DOMAIN data THEN data.speed ELSE 100
       IN  req' = [req EXCEPT ![r] =
              IF llm_service = NoService
                  THEN Done(f, HttpError(503, <<"LLM service not available">>))
              ELSE IF DOMAIN data = {}
                  THEN Done(f, HttpError(400, <<"Request body is required">>))
              ELSE IF text = <<>>
                  THEN Done(f, HttpError(400, <<"Text cannot be empty">>))
              ELSE IF voice \notin valid_voices
                  THEN Done(f, HttpError(400, <<"Invalid voice. Must be one of: alloy, echo, fable, onyx, nova, shimmer">>))
              ELSE IF ~(25 <= speed /\ speed <= 400)
                  THEN Done(f, HttpError(400, <<"Speed must be between 0.25 and 4.0">>))
              ELSE [f EXCEPT !.pc = "call",
                             !.loc = [text |-> text, voice |-> voice, speed |-> speed]]]
    /\ UNCHANGED <<env, llm_service, current_provider, created>>

\* a direct caller of the package: generate_speech(text, voice, speed) on the
\* active client
call_generate_speech(r, data) ==
    /\ Free(r)
    /\ llm_service # NoService
    /\ req' = [req EXCEPT ![r] =
                  [IdleFrame EXCEPT !.op = "generate_speech", !.arg = data, !.pc = "call",
                                    !.loc = [text |-> data.text, voice |-> data.voice,
                                             speed |-> data.speed]]]
    /\ UNCHANGED <<env, llm_service, current_provider, created>>

\* a variant in which every client sends the text to a speech endpoint
service_call_any_client(r) ==
    /\ req[r].pc = "call"
    /\ LET f == [req[r] EXCEPT !.client = llm_service] IN
       req' = [req EXCEPT ![r] =
          IF f.op = "chat"
              THEN Issue(f, Call("chat", f.client, 1000, 7, "question", 0, 0, f.arg.question))
          ELSE IF f.op = "dictionary"
              THEN Issue(f, Call("chat", f.client, 1000, 7, "word", 0, 0, f.loc.word))
          ELSE Issue(f, Call("speech", f.client, 0, 0, f.loc.voice, 0, 0, f.loc.text))]
    /\ UNCHANGED <<env, llm_service, current_provider, created>>

\* the handler reads the global and calls the method on it (app.py:266, 327,
\* 367); LLMService.chat and dictionary_lookup end in _chat_with_llm,
\* generate_speech in the TTS call or, in the base class, in NotImplementedError
service_call(r) ==
    /\ req[r].pc = "call"
    /\ LET f == [req[r] EXCEPT !.client = llm_service] IN
       req' = [req EXCEPT ![r] =
          IF f.op = "chat"
              THEN Issue(f, Call("chat", f.client, 1000, 7, "question", 0, 0, f.arg.question))
          ELSE IF f.op = "dictionary"
              THEN Issue(f, Call("chat", f.client, 1000, 7, "word", 0, 0, f.loc.word))
          ELSE IF supports_tts(f.client)
              THEN Issue(f, Call("speech", f.client, 0, 0, f.loc.voice, 0, 0, f.loc.text))
          ELSE Propagate(f, [exc |-> "NotImplementedError",
                  msg |-> get_provider_name(f.client) \o <<" does not support text-to-speech">>])]
    /\ UNCHANGED <<env, llm_service, current_provider, created>>

\* the provider answers a chat call with text
chat_returns(r, text) ==
    /\ Waiting(r, "chat")
    /\ LET f == req[r]
           response == strip(text)
           g == Answered(f, text, response)
       IN  req' = [req EXCEPT ![r] =
              IF f.op = "chat"
              THEN [g EXCEPT !.pc = "provider_info", !.loc = [response |-> response]]
              ELSE Done(g, Http(200, [word |-> f.loc.word, definition |-> response,
                                      context |-> f.loc.context]))]
    /\ UNCHANGED <<env, llm_service, current_provider, created>>

\* app.py:267-272: the global is read again for the provider field
chat_provider_info(r) ==
    /\ req[r].pc = "provider_info"
    /\ LET f == req[r]
           provider_info == get_provider_info(llm_service)
       IN  req' = [req EXCEPT ![r] =
              Done(f, Http(200, [response |-> f.loc.response,
                                 provider |-> provider_info.provider]))]
    /\ UNCHANGED <<env, llm_service, current_provider, created>>

\* base64.b64encode(audio_data).decode('utf-8'): the bytes as one lexeme, encoded
b64encode(audio_data) == <<"base64">> \o audio_data

\* the provider answers a speech call with audio
speech_returns(r, audio) ==
    /\ Waiting(r, "speech")
    /\ LET f == req[r]
           g == Answered(f, audio, audio)
       IN  req' = [req EXCEPT ![r] =
              IF f.op = "tts"
              THEN Done(g, Http(200, [success |-> TRUE, audio |-> b64encode(audio),
                                      format |-> "mp3", text |-> f.loc.text,
                                      voice |-> f.loc.voice, speed |-> f.loc.speed]))
              ELSE Done(g, Returned(audio))]
    /\ UNCHANGED <<env, llm_service, current_provider, created>>

(***************************************************************************)
(* switch_provider (app.py)                                                *)
(***************************************************************************)
\* a variant that handles a failed construction as the start-up code does: the
\* globals are reset to None
switch_provider_reset(r, data, built) ==
    /\ Free(r)
    /\ LET f == [IdleFrame EXCEPT !.op = "switch", !.arg = data]
           provider_name == lower(strip(data.provider))
           available_providers == detect_available_providers(env)
           made == create_service(env, provider_name, created + 1, built)
           rejected ==
               IF DOMAIN data = {} \/ "provider" \notin DOMAIN data
                   THEN Done(f, HttpError(400, <<"Provider name is required">>))
               ELSE IF ~In(provider_name, available_providers)
                   THEN Done(Log(f, availability_log(env)), HttpError(400,
                           <<"Provider ">> \o provider_name \o <<" is not available">>))
               ELSE Log(f, availability_log(env))
       IN  IF rejected.pc = "done"
           THEN /\ req' = [req EXCEPT ![r] = rejected]
                /\ UNCHANGED <<created, llm_service, current_provider>>
           ELSE /\ created < MaxInst
                /\ IF made.ok
                   THEN /\ req' = [req EXCEPT ![r] =
                              [rejected EXCEPT !.pc = "set_service",
                                        !.loc = [new_service |-> made.service,
                                                 new_provider_info |->
                                                     get_provider_info(made.service)]]]
                        /\ created' = created + 1
                        /\ UNCHANGED <<llm_service, current_provider>>
                   ELSE /\ req' = [req EXCEPT ![r] =
                              Done(Log(rejected, <<<<"Error switching provider: ">>
                                                     \o made.err.msg>>),
                                   [HttpError(400, made.err.msg) EXCEPT
                                          !.body = [success |-> FALSE]])]
                        /\ created' = created
                        /\ llm_service' = NoService
                        /\ current_provider' = NoInfo
    /\ env' = env

\* app.py:424-438: validation, the availability check and the construction of
\* the new client; built: whether the client's constructor returns
switch_provider(r, data, built) ==
    /\ Free(r)
    /\ LET f == [IdleFrame EXCEPT !.op = "switch", !.arg = data]
           provider_name == lower(strip(data.provider))
           available_providers == detect_available_providers(env)
           made == create_service(env, provider_name, created + 1, built)
           rejected ==
               IF DOMAIN data = {} \/ "provider" \notin DOMAIN data
                   THEN Done(f, HttpError(400, <<"Provider name is required">>))
               ELSE IF ~In(provider_name, available_providers)
                   THEN Done(Log(f, availability_log(env)), HttpError(400,
                           <<"Provider ">> \o provider_name \o <<" is not available">>))
               ELSE Log(f, availability_log(env))
       IN  IF rejected.pc = "done"
           THEN req' = [req EXCEPT ![r] = rejected] /\ created' = created
           ELSE /\ created < MaxInst
                /\ IF made.ok
                   THEN /\ req' = [req EXCEPT ![r] =
                              [rejected EXCEPT !.pc = "set_service",
                                        !.loc = [new_service |-> made.service,
                                                 new_provider_info |->
                                                     get_provider_info(made.service)]]]
                        /\ created' = created + 1
                   ELSE /\ req' = [req EXCEPT ![r] =
                              Done(Log(rejected, <<<<"Error switching provider: ">>
                                                     \o made.err.msg>>),
                                   [HttpError(400, made.err.msg) EXCEPT
                                          !.body = [success |-> FALSE]])]
                        /\ created' = created
    /\ UNCHANGED <<env, llm_service, current_provider>>

\* app.py:441  llm_service = new_service
switch_set_service(r) ==
    /\ req[r].pc = "set_service"
    /\ llm_service' = req[r].loc.new_service
    /\ req' = [req EXCEPT ![r].pc = "set_info"]
    /\ UNCHANGED <<env, current_provider, created>>

\* app.py:442-450  current_provider = new_provider_info, and the response
switch_set_info(r) ==
    /\ req[r].pc = "set_info"
    /\ current_provider' = req[r].loc.new_provider_info
    /\ req' = [req EXCEPT ![r] =
          Done(Log(req[r], <<<<"Switched to LLM provider: ">>
                             \o req[r].loc.new_provider_info.description>>),
               Http(200, [success |-> TRUE,
                          provider |-> req[r].loc.new_provider_info]))]
    /\ UNCHANGED <<env, llm_service, created>>

(***************************************************************************)
(* The handlers that report the provider (app.py): they read the globals   *)
(***************************************************************************)
\* LLMFactory.get_provider_models(): OPENAI_MODEL and GEMINI_MODEL are not set
get_provider_models == (OPENAI :> GPT_MODEL) @@ (GOOGLE :> GEMINI_MODEL)

\* get_llm_info: the globals are read in one expression (app.py:294-299)
get_llm_info(r) ==
    /\ Free(r)
    /\ LET f == [IdleFrame EXCEPT !.op = "llm_info", !.client = llm_service,
                                  !.log = availability_log(env)]
           available_provider_names == detect_available_providers(env)
           available_providers ==
               [provider_name \in {OPENAI, GOOGLE} |->
                   [model |-> get_provider_models[provider_name],
                    available |-> In(provider_name, available_provider_names),
                    description |-> <<get_provider_models[provider_name]>>]]
           current_info ==
               IF llm_service # NoService /\ current_provider # NoInfo
               THEN [provider |-> current_provider.provider,
                     description |-> current_provider.description]
               ELSE [provider |-> <<>>, description |-> <<>>]
       IN  req' = [req EXCEPT ![r] =
              Done(f, Http(200, [current_provider |-> current_info,
                                 available_providers |-> available_providers]))]
    /\ UNCHANGED <<env, llm_service, current_provider, created>>

\* get_available_providers: a client of every provider is constructed to see
\* whether it can be, and dropped; built: whether the constructors return
get_available_providers(r, built) ==
    /\ Free(r)
    /\ LET f == [IdleFrame EXCEPT !.op = "providers"]
           providers == get_provider_models
           provider_status ==
               [provider_name \in DOMAIN providers |->
                   LET test_service == create_service(env, provider_name, 0, built) IN
                   IF test_service.ok
                   THEN [available |-> TRUE, model |-> providers[provider_name],
                         info |-> get_provider_info(test_service.service), error |-> <<>>]
                   ELSE [available |-> FALSE, model |-> providers[provider_name],
                         info |-> NoInfo, error |-> test_service.err.msg]]
       IN  req' = [req EXCEPT ![r] =
              Done(f, Http(200, [providers |-> provider_status,
                                 current |-> current_provider]))]
    /\ UNCHANGED <<env, llm_service, current_provider, created>>

\* get_current_provider, app.py:462: `if llm_service is None`
get_current_provider(r) ==
    /\ Free(r)
    /\ LET f == [IdleFrame EXCEPT !.op = "current", !.client = llm_service] IN
       req' = [req EXCEPT ![r] =
          IF llm_service = NoService
          THEN Done(f, HttpError(503, <<"No LLM service available">>))
          ELSE [f EXCEPT !.pc = "read_info"]]
    /\ UNCHANGED <<env, llm_service, current_provider, created>>

\* get_current_provider, app.py:465-468: current_provider is read for the response
current_provider_read(r) ==
    /\ req[r].pc = "read_info"
    /\ req' = [req EXCEPT ![r] =
          Done(req[r], Http(200, [provider |-> current_provider, available |-> TRUE]))]
    /\ UNCHANGED <<env, llm_service, current_provider, created>>

\* health_check: both globals are read in one expression (app.py:473-477)
health_check(r) ==
    /\ Free(r)
    /\ LET f == [IdleFrame EXCEPT !.op = "health", !.client = llm_service] IN
       req' = [req EXCEPT ![r] =
          Done(f, Http(200, [status |-> "healthy",
                             llm_available |-> llm_service # NoService,
                             current_provider |-> current_provider]))]
    /\ UNCHANGED <<env, llm_service, current_provider, created>>

(***************************************************************************)
(* What the outside world sends: requests, and the providers' answers      *)
(***************************************************************************)
Quoted(t) == <<QUOTE>> \o t \o <<QUOTE>>
Sentences(body) == <<"{">> \o Quoted(KEY) \o <<":", " ">> \o body \o <<"}">>

\* one sentence, its line break kept as an escape
OneSentence == Sentences(<<"[">> \o Quoted(<<"I have now, alas!", ESC_NL, "Law">>) \o <<"]">>)
TwoSentences == Sentences(<<"[">> \o Quoted(<<"Night.">>) \o <<",", " ">>
                          \o Quoted(<<" ", "He paces.">>) \o <<"]">>)

\* a fenced object without the key
FencedEmpty == <<FENCE_JSON, " ", "{", "}", " ", FENCE>>

\* a sentence that quotes a fenced block
FencedInside ==
    Sentences(<<"[">> \o Quoted(<<FENCE_JSON, " ", "{", "}", " ", FENCE>>) \o <<"]">>)

JsonAnswers ==
    { OneSentence,
      TwoSentences,
      Sentences(<<"[", "]">>),
      Sentences(Quoted(<<"Night.">>)),
      <<"{", "}">>,
      <<"[">> \o Quoted(<<"Night.">>) \o <<"]">>,
      <<" ", "Night falls.", NL>>,
      <<FENCE_JSON, NL>> \o OneSentence \o <<NL, FENCE>>,
      <<"Sure:", " ">> \o TwoSentences,
      FencedInside,
      FencedEmpty }

SimpleAnswers == { <<" ", "Faust", NL>> }
ChatAnswers == { <<"It means hello.", " ">> }
AudioAnswers == { <<"mp3 bytes">> }
Causes == { <<"quota exceeded">> }

PageRequests ==
    [text_name : {"", "faust", "cast", "lied", "nosuch"}, page_number : 0..3]

AsDict(d) == [py |-> "dict", d |-> d]
TranslateArgs ==
    { [py |-> "str", d |-> EmptyDict],
      AsDict(EmptyDict),
      AsDict([metadata |-> FaustMetadata]),
      AsDict([page_data |-> FaustPage2]),
      AsDict([page_data |-> CastPage, metadata |-> EmptyDict]),
      AsDict([page_data |-> NoParagraphsPage]),
      AsDict([page_data |-> NoTextPage, metadata |-> FaustMetadata]) }

ChatRequests == { EmptyDict, [question |-> <<>>], [question |-> <<"Was ist das?">>] }
DictionaryRequests ==
    { EmptyDict, [context |-> <<"x">>], [word |-> <<" ">>], [word |-> <<" ", "Pudel">>] }
SpeechRequests ==
    { EmptyDict, [text |-> <<" ">>], [text |-> <<"Hallo">>] }
    \cup [text : {<<"Hallo">>}, voice : {"nova", "invalid"}, speed : {24, 25, 400, 401}]
\* arguments of a direct generate_speech call
SpeechArgs == [text : {<<"Hallo">>}, voice : {"nova"}, speed : {25, 400}]
SwitchRequests ==
    { EmptyDict, [other |-> <<>>],
      [provider |-> <<" ","O","p","e","n","A","I">>],
      [provider |-> GOOGLE], [provider |-> GEMINI],
      [provider |-> <<"n","o","n","e","x","i","s","t","e","n","t">>] }

(***************************************************************************)
(* The server handling one request at a time                               *)
(***************************************************************************)
Next ==
    \E r \in SeqReq :
        \/ \E data \in PageRequests : translate_page(r, data)
        \/ \E text \in TranslateArgs : call_translate(r, text)
        \/ dispatch(r)
        \/ metadata_step(r)
        \/ \E text \in SimpleAnswers : metadata_returns(r, text)
        \/ paragraph_step(r)
        \/ sentence_step(r)
        \/ \E text \in JsonAnswers : sentence_returns(r, text)
        \/ \E cause \in Causes : provider_fails(r, cause)
        \/ \E data \in ChatRequests : chat(r, data)
        \/ \E data \in DictionaryRequests : dictionary_lookup(r, data)
        \/ \E data \in SpeechRequests : text_to_speech(r, data)
        \/ \E data \in SpeechArgs : call_generate_speech(r, data)
        \/ service_call(r)
        \/ \E text \in ChatAnswers : chat_returns(r, text)
        \/ chat_provider_info(r)
        \/ \E audio \in AudioAnswers : speech_returns(r, audio)
        \/ \E data \in SwitchRequests, built \in BOOLEAN : switch_provider(r, data, built)
        \/ switch_set_service(r)
        \/ switch_set_info(r)
        \/ get_llm_info(r)
        \/ \E built \in BOOLEAN : get_available_providers(r, built)
        \/ get_current_provider(r)
        \/ current_provider_read(r)
        \/ health_check(r)

Spec == Init /\ [][Next]_vars

(***************************************************************************)
(* The server handling requests concurrently: one thread per request, the  *)
(* two globals shared without a lock                                       *)
(***************************************************************************)
ConcPageRequests == { [text_name |-> "lied", page_number |-> 0] }
ConcJsonAnswers == { OneSentence }
ConcSwitchRequests == { [provider |-> GOOGLE] }

\* the process has both credentials and started with its preferred client
InitConc ==
    /\ env = [OPENAI_API_KEY |-> "key", GEMINI_API_KEY |-> "key"]
    /\ llm_service = startup_service(env, TRUE)
    /\ current_provider = get_provider_info(llm_service)
    /\ created = 0
    /\ req = [r \in Req |-> IdleFrame]

NextConc ==
    \E r \in Req :
        \/ \E data \in ConcPageRequests : translate_page(r, data)
        \/ dispatch(r)
        \/ metadata_step(r)
        \/ \E text \in SimpleAnswers : metadata_returns(r, text)
        \/ paragraph_step(r)
        \/ sentence_step(r)
        \/ \E text \in ConcJsonAnswers : sentence_returns(r, text)
        \/ \E data \in ConcSwitchRequests, built \in BOOLEAN : switch_provider(r, data, built)
        \/ switch_set_service(r)
        \/ switch_set_info(r)

SpecConc == InitConc /\ [][NextConc]_vars

(***************************************************************************)
(* switch_provider running while other threads read the globals            *)
(***************************************************************************)
NextObs ==
    \E r \in Req :
        \/ \E data \in ConcSwitchRequests, built \in BOOLEAN : switch_provider(r, data, built)
        \/ switch_set_service(r)
        \/ switch_set_info(r)
        \/ get_llm_info(r)
        \/ get_current_provider(r)
        \/ current_provider_read(r)
        \/ health_check(r)

SpecObs == InitConc /\ [][NextObs]_vars

(***************************************************************************)
(* Properties of the translation engine                                    *)
(***************************************************************************)
\* the requests that run LLMService.translate
IsTranslation(f) == f.op \in {"translate_page", "translate"}

\* translate has returned a response to its caller
Succeeded(f) ==
    /\ IsTranslation(f)
    /\ f.pc = "done"
    /\ \/ f.result.outcome = "returned"
       \/ f.result.outcome = "http" /\ f.result.status = 200

\* what the caller passed to translate, as it was when passed
CallerArg(f) ==
    IF f.op = "translate_page"
    THEN [metadata |-> Library[f.arg.text_name].metadata,
          page_data |-> Library[f.arg.text_name].files[f.arg.page_number + 1]]
    ELSE f.arg.d

InputPage(f) == CallerArg(f).page_data
OutputPage(f) == f.result.body.page_data

\* translate got as far as building its response
Dispatched(f) == IsTranslation(f) /\ "page_data" \in DOMAIN f.response

\* the page translate is working on
WorkPage(f) == f.heap[f.response.page_data]

\* the translation attached to the sentence a call was issued for
Attached(f, call) ==
    LET sentence == WorkPage(f).paragraphs[call.p].sentences[call.s]
    IN  IF "english_translation" \in DOMAIN sentence
        THEN sentence.english_translation ELSE JNull

\* C1: after translate returns successfully, every sentence of every
\* paragraph of the output page carries an english_translation that is a
\* non-empty list, whatever the provider answered.  The engine does not
\* enforce this: an answer whose english_sentences is [] (or not a list) is
\* attached as it is.
C1_NonEmptyTranslationList ==
    \A r \in Req :
        Succeeded(req[r]) =>
            \A p \in DOMAIN OutputPage(req[r]).paragraphs :
                \A s \in DOMAIN OutputPage(req[r]).paragraphs[p].sentences :
                    LET sentence == OutputPage(req[r]).paragraphs[p].sentences[s]
                    IN  /\ "english_translation" \in DOMAIN sentence
                        /\ sentence.english_translation.k = "list"
                        /\ Len(sentence.english_translation.v) >= 1

\* C2: the output page of translate has the paragraphs of the input page in
\* the same number and order, each with the same number of sentences, and
\* the sentence at each (paragraph, position) has the text and type of the
\* input sentence there, with nothing but english_translation added.
C2_StructurePreserved ==
    \A r \in Req :
        Succeeded(req[r]) =>
            LET in == InputPage(req[r])
                out == OutputPage(req[r])
            IN  /\ DOMAIN out = DOMAIN in
                /\ Len(out.paragraphs) = Len(in.paragraphs)
                /\ \A p \in DOMAIN in.paragraphs :
                      /\ DOMAIN out.paragraphs[p] = DOMAIN in.paragraphs[p]
                      /\ Len(out.paragraphs[p].sentences) = Len(in.paragraphs[p].sentences)
                      /\ \A s \in DOMAIN in.paragraphs[p].sentences :
                            LET a == in.paragraphs[p].sentences[s]
                                b == out.paragraphs[p].sentences[s]
                            IN  /\ DOMAIN b \ {"english_translation"}
                                      = DOMAIN a \ {"english_translation"}
                                /\ \A k \in DOMAIN a \ {"english_translation"} : b[k] = a[k]

\* a page of three paragraphs, one of them empty, has been translated and a
\* provider answer of two sentences has been attached to one sentence
C2_Witness ==
    \E r \in Req :
        /\ Succeeded(req[r])
        /\ Len(InputPage(req[r]).paragraphs) = 3
        /\ \E p \in DOMAIN OutputPage(req[r]).paragraphs :
           \E s \in DOMAIN OutputPage(req[r]).paragraphs[p].sentences :
              LET b == OutputPage(req[r]).paragraphs[p].sentences[s]
              IN  /\ "english_translation" \in DOMAIN b
                  /\ b.english_translation.k = "list"
                  /\ Len(b.english_translation.v) = 2

\* the translation the lookup table of the specification gives a speaker name
SpeakerTable(text) ==
    IF upper(text) = <<"C","H","O","R">> THEN <<"C","H","O","R","U","S">>
    ELSE IF upper(text) = <<"A","L","L","E">> THEN <<"A","L","L">>
    ELSE IF upper(text) = <<"S","T","I","M","M","E">> THEN <<"V","O","I","C","E">>
    ELSE IF upper(text) = <<"S","P","R","E","C","H","E","R">>
        THEN <<"N","A","R","R","A","T","O","R">>
    ELSE text

\* C3: a sentence of type speaker_name is translated by lookup: CHOR, ALLE,
\* STIMME, SPRECHER in any letter case give [CHORUS], [ALL], [VOICE],
\* [NARRATOR], any other text gives the one-element list holding the text
\* unchanged; no provider call is issued for such a sentence, and a returned
\* page has every such sentence translated.
C3_SpeakerNameLookup ==
    \A r \in Req :
        (Dispatched(req[r]) /\ "paragraphs" \in DOMAIN WorkPage(req[r])) =>
            \A p \in DOMAIN WorkPage(req[r]).paragraphs :
                "sentences" \in DOMAIN WorkPage(req[r]).paragraphs[p] =>
                \A s \in DOMAIN WorkPage(req[r]).paragraphs[p].sentences :
                    LET sentence == WorkPage(req[r]).paragraphs[p].sentences[s] IN
                    ("type" \in DOMAIN sentence /\ sentence.type = "speaker_name") =>
                        /\ \A i \in DOMAIN req[r].calls :
                              ~(req[r].calls[i].p = p /\ req[r].calls[i].s = s)
                        /\ "english_translation" \in DOMAIN sentence =>
                              sentence.english_translation
                                  = JList(<<JStr(SpeakerTable(sentence.text))>>)
                        /\ Succeeded(req[r]) => "english_translation" \in DOMAIN sentence

\* the names "chor" and "Stimme" have been translated to CHORUS and VOICE and
\* "Chor " (with a trailing blank) has been kept as it is
C3_Witness ==
    \E r \in Req :
        /\ Succeeded(req[r])
        /\ \E p \in DOMAIN OutputPage(req[r]).paragraphs :
           \E s \in DOMAIN OutputPage(req[r]).paragraphs[p].sentences :
              LET b == OutputPage(req[r]).paragraphs[p].sentences[s]
              IN  /\ b.text = <<"S","t","i","m","m","e">>
                  /\ b.english_translation = JList(<<JStr(<<"V","O","I","C","E">>)>>)
        /\ \E p \in DOMAIN OutputPage(req[r]).paragraphs :
           \E s \in DOMAIN OutputPage(req[r]).paragraphs[p].sentences :
              LET b == OutputPage(req[r]).paragraphs[p].sentences[s]
              IN  /\ b.text = <<"C","h","o","r"," ">>
                  /\ b.english_translation = JList(<<JStr(<<"C","h","o","r"," ">>)>>)

\* json.loads gives an object whose english_sentences is a list
HasList(data) ==
    /\ data.ok
    /\ data.val.k = "obj"
    /\ KEY \in DOMAIN data.val.v
    /\ data.val.v[KEY].k = "list"

\* line breaks in the entries of a list of strings, taken together
RECURSIVE SumBreaks(_)
SumBreaks(l) ==
    IF l = <<>> THEN 0 ELSE count_nl(Head(l).v) + SumBreaks(Tail(l))

\* how often the symbol c occurs in the text t
Occurrences(t, c) == Cardinality({i \in 1..Len(t) : t[i] = c})

\* C4 as stated: whenever the text the provider answered with is a JSON
\* object whose english_sentences is a list L, the sentence's
\* english_translation equals L.  This fails for the Gemini client: the
\* response normaliser looks for a fenced block first, also inside the string
\* literals of an answer that is already a JSON object.
C4_AnswerListKept ==
    \A r \in Req :
        Dispatched(req[r]) =>
            \A i \in DOMAIN req[r].calls :
                (req[r].calls[i].kind = "json" /\ req[r].calls[i].state = "returned") =>
                    \A data \in {json_loads(req[r].calls[i].answer)} :
                        HasList(data) => Attached(req[r], req[r].calls[i]) = data.val.v[KEY]

\* C4: for every sentence translated through a provider call, when the
\* response that the client's _json_translate returns (for Gemini: the
\* provider's text after the response normaliser) is a JSON object whose
\* english_sentences is a list L, the sentence's english_translation equals L
\* exactly: same entries, same order, nothing trimmed or split again.  So
\* when the object holds nothing else and L holds strings, the line breaks in
\* the entries are as many as the line-break escapes in the response.
C4_ReturnedListKept ==
    \A r \in Req :
        Dispatched(req[r]) =>
            \A i \in DOMAIN req[r].calls :
                (req[r].calls[i].kind = "json" /\ req[r].calls[i].state = "returned") =>
                    \A data \in {json_loads(req[r].calls[i].response)} :
                        HasList(data) =>
                            \A eng \in {Attached(req[r], req[r].calls[i])} :
                                /\ eng = data.val.v[KEY]
                                /\ (/\ DOMAIN data.val.v = {KEY}
                                    /\ \A n \in DOMAIN eng.v : eng.v[n].k = "str")
                                      => SumBreaks(eng.v)
                                            = Occurrences(req[r].calls[i].response, ESC_NL)

\* the Gemini client has cut a two-sentence object out of a chatty answer and
\* both entries are attached, and an answer with one line-break escape has
\* given a translation with one line break
C4_Witness ==
    \E r \in Req :
        /\ Dispatched(req[r])
        /\ \E i \in DOMAIN req[r].calls :
              /\ req[r].calls[i].state = "returned"
              /\ req[r].calls[i].answer = <<"Sure:", " ">> \o TwoSentences
              /\ req[r].calls[i].response = TwoSentences
              /\ Attached(req[r], req[r].calls[i]).k = "list"
              /\ Len(Attached(req[r], req[r].calls[i]).v) = 2
        /\ \E i \in DOMAIN req[r].calls :
              /\ req[r].calls[i].state = "returned"
              /\ req[r].calls[i].response = OneSentence
              /\ Attached(req[r], req[r].calls[i]).k = "list"
              /\ SumBreaks(Attached(req[r], req[r].calls[i]).v) = 1

\* C5: translate never changes its input: at every point of a call, and
\* after it has returned or raised, the caller's page_data and metadata are
\* what the caller passed; translations go to a separate copy.
C5_InputUntouched ==
    \A r \in Req :
        (IsTranslation(req[r]) /\ req[r].book.py = "dict") =>
            /\ \A k \in DOMAIN req[r].book.d :
                  req[r].heap[req[r].book.d[k]] = CallerArg(req[r])[k]
            /\ Dispatched(req[r]) => req[r].response.page_data \notin DOMAIN req[r].book.d

\* a call has ended with a failed provider call after translations were
\* attached to the copy
C5_Witness ==
    \E r \in Req :
        /\ Dispatched(req[r])
        /\ req[r].pc = "done"
        /\ req[r].calls # <<>>
        /\ Pending(req[r]).state = "failed"
        /\ WorkPage(req[r]) # req[r].heap[req[r].book.d.page_data]

\* the answer the caller of translate gets when a provider call fails
FailureResult(f, cause) ==
    IF f.op = "translate_page"
    THEN HttpError(500, <<"Page translation failed: ">> \o cause)
    ELSE Raised([exc |-> "Exception", msg |-> cause])

\* C6: if a provider call of a page translation fails, the pass stops at that
\* call: the failed call stays the last one the request issued, the request
\* has ended with an error that carries the cause and with no page, and the
\* step in which the call fails leaves the active client and the recorded
\* provider info as they were.
C6_AbortOnProviderFailure ==
    [][ \A r \in Req :
          LET f == req[r]
              g == req'[r]
          IN  /\ IsTranslation(g) =>
                    \A i \in DOMAIN g.calls :
                        g.calls[i].state = "failed" =>
                            /\ i = Len(g.calls)
                            /\ g.pc = "done"
                            /\ g.result = FailureResult(g, g.calls[i].cause)
                            /\ g.result.body = EmptyDict
              /\ (/\ IsTranslation(f)
                  /\ f.pc = "wait"
                  /\ g.calls # <<>>
                  /\ Pending(g).state = "failed")
                    => /\ llm_service' = llm_service
                       /\ current_provider' = current_provider
                       /\ created' = created ]_vars

\* a sentence call has failed after the metadata and an earlier sentence were
\* translated, with sentences still to come
C6_Witness ==
    \E r \in Req :
        /\ req[r].op = "translate_page"
        /\ req[r].pc = "done"
        /\ Len(req[r].calls) >= 3
        /\ Pending(req[r]).state = "failed"
        /\ Pending(req[r]).kind = "json"
        /\ req[r].result.status = 500
        /\ req[r].p < Len(WorkPage(req[r]).paragraphs)

IllFormedPage(page) ==
    \/ "paragraphs" \notin DOMAIN page
    \/ \E p \in DOMAIN page.paragraphs :
          \/ "sentences" \notin DOMAIN page.paragraphs[p]
          \/ \E s \in DOMAIN page.paragraphs[p].sentences :
                "text" \notin DOMAIN page.paragraphs[p].sentences[s]

\* C8: a request rejected for malformed or missing input is rejected before
\* any provider call is issued.  This holds for chat, dictionary_lookup,
\* text_to_speech and switch_provider, but not for translate: ill-formed page
\* data is noticed only when the pass reaches it, after the metadata and the
\* earlier sentences have been sent to the provider.
C8_RejectedBeforeAnyCall ==
    \A r \in Req :
        /\ (/\ req[r].op \in {"chat", "dictionary", "tts", "switch"}
            /\ req[r].pc = "done"
            /\ req[r].result.status = 400) => req[r].calls = <<>>
        /\ (/\ IsTranslation(req[r])
            /\ req[r].book.py = "dict"
            /\ "page_data" \in DOMAIN req[r].book.d
            /\ IllFormedPage(InputPage(req[r]))) => req[r].calls = <<>>
        /\ (/\ req[r].op = "translate"
            /\ (req[r].arg.py # "dict" \/ "page_data" \notin DOMAIN req[r].arg.d))
              => req[r].calls = <<>>

\* C9: a switch_provider request that fails (unknown id, credential missing,
\* or the client's construction raising) answers 400 with an error message,
\* and the step in which it fails leaves the active client and the recorded
\* provider info as they were; a request that has begun to write the globals
\* does not fail any more.
C9_FailedSwitchKeepsProvider ==
    [][ \A r \in Req :
          (/\ req'[r] # req[r]
           /\ req'[r].op = "switch"
           /\ req'[r].pc = "done"
           /\ req'[r].result.status # 200)
            => /\ llm_service' = llm_service
               /\ current_provider' = current_provider
               /\ req'[r].result.status = 400
               /\ req'[r].result.error # <<>>
               /\ req[r].pc \notin {"set_service", "set_info"} ]_vars

\* with a client active, a switch has failed because the new client's
\* constructor raised, and the active client is still there
C9_Witness ==
    \E r \in Req :
        /\ req[r].op = "switch"
        /\ req[r].pc = "done"
        /\ req[r].result.status = 400
        /\ req[r].result.body = [success |-> FALSE]
        /\ req[r].result.error = <<"client construction failed">>
        /\ llm_service # NoService
        /\ current_provider = get_provider_info(llm_service)
        /\ current_provider.provider # lower(strip(req[r].arg.provider))

\* C10: under any interleaving of switch_provider with translations, a page
\* translation sends every provider call, for metadata and for sentences, to
\* the client it read from the global when translate was called, and a
\* translation that calls translate uses the client that is active then: the
\* one the last completed assignment of a switch put there.
C10_CallsUseCapturedClient ==
    [][ \A r \in Req :
          LET f == req[r]
              g == req'[r]
          IN  /\ (IsTranslation(g) /\ f.pc = "dispatch" /\ g.pc # "dispatch")
                    => g.client = llm_service
              /\ (IsTranslation(g) /\ f.pc \in {"run", "wait"} /\ g.pc # "idle"
                     /\ g.op = f.op /\ g.calls # <<>>)
                    => /\ g.client = f.client
                       /\ \A i \in DOMAIN g.calls : g.calls[i].client = g.client
              /\ (f.pc = "set_service" /\ g.pc = "set_info")
                    => llm_service' = f.loc.new_service
              /\ llm_service' # llm_service
                    => \E q \in Req : req[q].pc = "set_service" /\ req'[q].pc = "set_info" ]_vars

\* a translation has sent its metadata call to one client, a switch to
\* another client has completed, and the translation has sent a sentence call
\* to the client it started with
C10_Witness ==
    \E r \in Req, q \in Req :
        /\ req[r].op = "translate_page"
        /\ Len(req[r].calls) >= 2
        /\ Pending(req[r]).kind = "json"
        /\ Pending(req[r]).client = req[r].client
        /\ req[q].op = "switch"
        /\ req[q].pc = "done"
        /\ req[q].result.status = 200
        /\ llm_service = req[q].loc.new_service
        /\ llm_service # req[r].client
        /\ llm_service.provider # req[r].client.provider

(***************************************************************************)
(* A direct caller of the package: the static methods of LLMFactory        *)
(***************************************************************************)
\* LLMFactory.detect_available_providers() called and returned
call_detect_available_providers(r) ==
    /\ Free(r)
    /\ req' = [req EXCEPT ![r] =
                  Done([IdleFrame EXCEPT !.op = "detect", !.log = availability_log(env)],
                       Returned(detect_available_providers(env)))]
    /\ UNCHANGED <<env, llm_service, current_provider, created>>

\* LLMFactory.get_preferred_provider(available_providers) called and returned
call_get_preferred_provider(r, available_providers) ==
    /\ Free(r)
    /\ req' = [req EXCEPT ![r] =
                  Done([IdleFrame EXCEPT !.op = "preferred",
                           !.arg = [available_providers |-> available_providers]],
                       Returned(get_preferred_provider(available_providers)))]
    /\ UNCHANGED <<env, llm_service, current_provider, created>>

\* LLMFactory.create_service(provider) called; it returns the new client or
\* raises; built: whether the client's constructor returns
call_create_service(r, provider, built) ==
    /\ Free(r)
    /\ LET f == [IdleFrame EXCEPT !.op = "create", !.arg = [provider |-> provider]]
           made == create_service(env, provider, created + 1, built)
       IN  IF made.ok
           THEN /\ created < MaxInst
                /\ created' = created + 1
                /\ req' = [req EXCEPT ![r] = Done(f, Returned(made.service))]
           ELSE /\ created' = created
                /\ req' = [req EXCEPT ![r] = Done(f, Raised(made.err))]
    /\ UNCHANGED <<env, llm_service, current_provider>>

\* provider names a caller may pass: create_service compares them as they are
ProviderIds == {OPENAI, GOOGLE, GEMINI, upper(OPENAI)}

MaxListLen == 2
\* lists of provider names a caller may pass, in any order, with repetitions
ProviderLists ==
    UNION { [1..n -> {OPENAI, GOOGLE, GEMINI}] : n \in 0..MaxListLen }

NextFactory ==
    \E r \in SeqReq :
        \/ call_detect_available_providers(r)
        \/ \E available_providers \in ProviderLists :
              call_get_preferred_provider(r, available_providers)
        \/ \E provider \in ProviderIds, built \in BOOLEAN :
              call_create_service(r, provider, built)

SpecFactory == Init /\ [][NextFactory]_vars

\* chat requests and switches handled on concurrent threads
NextChat ==
    \E r \in Req :
        \/ \E data \in ChatRequests : chat(r, data)
        \/ service_call(r)
        \/ \E text \in ChatAnswers : chat_returns(r, text)
        \/ chat_provider_info(r)
        \/ \E data \in ConcSwitchRequests, built \in BOOLEAN : switch_provider(r, data, built)
        \/ switch_set_service(r)
        \/ switch_set_info(r)

SpecChat == InitConc /\ [][NextChat]_vars

(***************************************************************************)
(* A direct caller of GeminiService._extract_json_from_response            *)
(***************************************************************************)
\* the method called on response_text and returned
call_extract_json(r, response_text) ==
    /\ Free(r)
    /\ \E out \in {_extract_json_from_response(response_text)} :
          req' = [req EXCEPT ![r] =
                     Done([IdleFrame EXCEPT !.op = "extract",
                              !.arg = [response_text |-> response_text],
                              !.loc = [applied |-> 0]],
                          Returned(out))]
    /\ UNCHANGED <<env, llm_service, current_provider, created>>

MaxApply == 3
\* the method called on what it returned last time; applied counts the calls
\* that led to its argument
call_extract_json_again(r) ==
    /\ req[r].op = "extract"
    /\ req[r].pc = "done"
    /\ req[r].loc.applied + 1 < MaxApply
    /\ \E out \in {_extract_json_from_response(req[r].result.body)} :
          req' = [req EXCEPT ![r] =
                     Done([IdleFrame EXCEPT !.op = "extract",
                              !.arg = [response_text |-> req[r].result.body],
                              !.loc = [applied |-> req[r].loc.applied + 1]],
                          Returned(out))]
    /\ UNCHANGED <<env, llm_service, current_provider, created>>

\* an object whose only member is an object that holds the key
NestedSentences == <<"{">> \o Quoted(<<"page">>) \o <<":", " ">> \o Sentences(<<"[", "]">>) \o <<"}">>
\* braces around the quoted key: the raw-object pattern matches, json.loads fails
KeyOnly == <<"{">> \o Quoted(KEY) \o <<"}">>

\* texts a provider may answer with: a lead-in, a body, a tail
ResponseLeads ==
    { <<>>, <<" ">>, <<"Sure:", " ">>,
      <<FENCE_JSON, NL>>,
      <<FENCE, NL>>,
      <<FENCE_JSON, " ">> \o KeyOnly \o <<" ", FENCE, NL, FENCE_JSON, " ">>,
      Sentences(<<"[", "]">>) \o <<NL, FENCE_JSON, " ">> }
ResponseBodies ==
    { OneSentence, Sentences(<<"[", "]">>), <<"{", "}">>, NestedSentences, KeyOnly,
      <<"[">> \o Quoted(<<"Night.">>) \o <<"]">>,
      <<"Night falls.">>,
      FencedInside }
ResponseTails ==
    { <<>>, <<NL>>, <<NL, FENCE>>,
      <<" ", FENCE, " ">> \o TwoSentences }
ResponseTexts ==
    { lead \o body \o tail :
         lead \in ResponseLeads, body \in ResponseBodies, tail \in ResponseTails }

NextNorm ==
    \E r \in SeqReq :
        \/ \E response_text \in ResponseTexts : call_extract_json(r, response_text)
        \/ call_extract_json_again(r)

SpecNorm == InitConc /\ [][NextNorm]_vars

(***************************************************************************)
(* Properties of provider selection and switching                          *)
(***************************************************************************)
\* the recorded info describes the provider of the client
Describes(info, service) ==
    IF service = NoService THEN info = NoInfo
    ELSE info # NoInfo /\ info.provider = get_provider_info(service).provider

\* C11: switching is atomic for concurrent requests: whenever a thread is
\* about to read the globals, llm_service and current_provider describe the
\* same provider, and what get_current_provider answers is the info of the
\* client it found active.  The two assignments of switch_provider are
\* separate statements with no lock around them, so a thread that runs
\* between them finds the new client next to the old info.
C11_SwitchAtomic ==
    /\ (\E r \in Req : Free(r) \/ req[r].pc = "read_info")
          => Describes(current_provider, llm_service)
    /\ \A r \in Req :
          (req[r].op = "current" /\ req[r].pc = "done" /\ req[r].result.status = 200)
             => Describes(req[r].result.body.provider, req[r].client)

\* C12 as stated: in every state there is exactly one active client, never
\* none.  A process that starts without a usable credential, or whose client
\* cannot be constructed, runs with llm_service = None.
C12_ExactlyOneClient == llm_service # NoService

\* C12: there is at most one active client (the one global), and none only
\* as long as start-up could not construct one and no switch has succeeded:
\* an active client is never lost, a failed switch keeps it, and the global
\* changes only by a switch's assignment, to the client that switch built.
C12_ClientNeverLost ==
    [][ /\ llm_service # NoService => llm_service' # NoService
        /\ llm_service' # llm_service =>
              \E r \in Req :
                 /\ req[r].pc = "set_service"
                 /\ req'[r].pc = "set_info"
                 /\ req[r].loc.new_service # NoService
                 /\ llm_service' = req[r].loc.new_service
        /\ \A r \in Req :
              (req'[r] # req[r] /\ req'[r].op = "switch" /\ req'[r].pc = "done"
                  /\ req'[r].result.status # 200)
                 => llm_service' = llm_service ]_vars

\* a switch has installed a client, and a later switch has failed in the
\* constructor and left that client active
C12_Witness ==
    \E r \in Req :
        /\ req[r].op = "switch"
        /\ req[r].pc = "done"
        /\ req[r].result.status = 400
        /\ req[r].result.body = [success |-> FALSE]
        /\ llm_service # NoService
        /\ llm_service.inst >= 1

\* the credential variable of a known provider is set and non-empty
Credential(provider) ==
    IF provider = OPENAI THEN env.OPENAI_API_KEY ELSE env.GEMINI_API_KEY
Configured(provider) ==
    /\ provider \in {OPENAI, GOOGLE}
    /\ Credential(provider) # UNSET
    /\ Credential(provider) # ""

\* C13: detect_available_providers() returns exactly the providers whose
\* credential variable is set and non-empty (each once, none when no
\* credential is set), and while doing so it makes no provider call,
\* constructs no client and leaves the active client alone.
C13_DetectReadsCredentialsOnly ==
    [][ \A r \in Req :
          (req'[r] # req[r] /\ req'[r].op = "detect" /\ req'[r].pc = "done")
             => /\ req'[r].result.outcome = "returned"
                /\ \A provider \in {OPENAI, GOOGLE, GEMINI} :
                      In(provider, req'[r].result.body) <=> Configured(provider)
                /\ Len(req'[r].result.body) =
                      Cardinality({provider \in {OPENAI, GOOGLE} : Configured(provider)})
                /\ req'[r].calls = <<>>
                /\ created' = created
                /\ llm_service' = llm_service
                /\ current_provider' = current_provider ]_vars

\* detection has answered with Gemini alone where the OpenAI credential is
\* set but empty
C13_Witness ==
    \E r \in Req :
        /\ req[r].op = "detect"
        /\ req[r].pc = "done"
        /\ env.OPENAI_API_KEY = ""
        /\ env.GEMINI_API_KEY = "key"
        /\ req[r].result.body = <<GOOGLE>>

\* C14: get_preferred_provider(available) applies the priority Gemini >
\* OpenAI: it returns 'google' whenever that is in the list, otherwise
\* 'openai' if that is in the list, otherwise None; the result is a member of
\* the list or None and does not depend on the order of the list.  The method
\* tests 'openai' first, so with both providers available it answers
\* 'openai', and so does start-up.
C14_GeminiPreferred ==
    \A r \in Req :
        (req[r].op = "preferred" /\ req[r].pc = "done")
           => LET available == req[r].arg.available_providers
                  preferred == req[r].result.body
              IN  /\ req[r].result.outcome = "returned"
                  /\ preferred = IF In(GOOGLE, available) THEN GOOGLE
                                  ELSE IF In(OPENAI, available) THEN OPENAI
                                  ELSE <<>>
                  /\ preferred = <<>> \/ In(preferred, available)

\* the two errors create_service raises itself
IsMissingConfiguration(res, id) ==
    /\ res.outcome = "raised"
    /\ res.exc = "ValueError"
    /\ res.error =
          IF id = OPENAI
          THEN <<"OPENAI_API_KEY environment variable is required for OpenAI provider">>
          ELSE <<"GEMINI_API_KEY environment variable is required for Gemini provider">>
IsUnsupportedProvider(res, id) ==
    /\ res.outcome = "raised"
    /\ res.exc = "ValueError"
    /\ res.error = <<"Unsupported LLM provider: ">> \o id

\* C15 as stated: create_service(id) succeeds if and only if id is an
\* available provider.  With the credential present the client's constructor
\* runs, and an exception it raises leaves create_service.
C15_SucceedsIffAvailable ==
    \A r \in Req :
        (req[r].op = "create" /\ req[r].pc = "done")
           => (req[r].result.outcome = "returned" <=> Configured(req[r].arg.provider))

\* C15: create_service(id) raises the missing-configuration error exactly
\* when id is 'openai' or 'google' and its credential is absent or empty, and
\* the unsupported-provider error exactly when id is neither; otherwise it
\* runs the client's constructor, and what it returns is a client whose
\* get_provider_info().provider equals id; so it succeeds only if id is an
\* available provider.
C15_CreateServiceOutcome ==
    \A r \in Req :
        (req[r].op = "create" /\ req[r].pc = "done")
           => LET id == req[r].arg.provider
                  res == req[r].result
                  known == id \in {OPENAI, GOOGLE}
              IN  /\ res.outcome \in {"returned", "raised"}
                  /\ IsMissingConfiguration(res, id) <=> (known /\ ~Configured(id))
                  /\ IsUnsupportedProvider(res, id) <=> ~known
                  /\ res.outcome = "returned"
                        => /\ Configured(id)
                           /\ get_provider_info(res.body).provider = id
                           /\ res.body.inst = created

\* create_service('google') has returned a Gemini client while the OpenAI
\* credential is empty
C15_Witness ==
    \E r \in Req :
        /\ req[r].op = "create"
        /\ req[r].pc = "done"
        /\ req[r].arg.provider = GOOGLE
        /\ req[r].result.outcome = "returned"
        /\ ~IsGPT(req[r].result.body)
        /\ env.OPENAI_API_KEY = ""

\* C16: as the package's usage text shows, create_service('gemini') creates
\* the Gemini client when the Gemini credential is configured: the call does
\* not end in an error of the factory, and what it returns is the Gemini
\* client.  The factory knows the Gemini provider only as 'google' and
\* answers 'gemini' with the unsupported-provider error.
C16_GeminiNameCreatesClient ==
    \A r \in Req :
        (/\ req[r].op = "create"
         /\ req[r].pc = "done"
         /\ req[r].arg.provider = GEMINI
         /\ Configured(GOOGLE))
           => /\ ~(req[r].result.outcome = "raised" /\ req[r].result.exc = "ValueError")
              /\ req[r].result.outcome = "returned"
                    => get_provider_info(req[r].result.body).provider = GOOGLE

(***************************************************************************)
(* Properties of text-to-speech                                            *)
(***************************************************************************)
\* how an outcome presents itself to the caller: its form, status, exception
Kind(res) == <<res.outcome, res.status, res.exc>>

\* the outcomes of a failed provider call and of any unexpected exception: the
\* handler's 500, and for a direct caller GPTService's `raise Exception(...)`
FailureKinds == { <<"http", 500, "">>, <<"raised", 0, "Exception">> }

\* the client has been asked for speech: validation is passed
AskedForSpeech(f) ==
    f.op \in {"tts", "generate_speech"} /\ f.pc = "done" /\ f.client # NoService

Sig(kind, field, p, s, text) ==
    [kind |-> kind, field |-> field, p |-> p, s |-> s, text |-> text]
SigOf(call) == Sig(call.kind, call.field, call.p, call.s, call.text)

\* the calls the metadata of the caller's argument asks for
MetadataCalls(arg) ==
    IF "metadata" \notin DOMAIN arg THEN <<>>
    ELSE (IF "title" \in DOMAIN arg.metadata
          THEN <<Sig("simple", "title", 0, 0, arg.metadata.title)>> ELSE <<>>)
         \o (IF "author" \in DOMAIN arg.metadata
             THEN <<Sig("simple", "author", 0, 0, arg.metadata.author)>> ELSE <<>>)

\* the calls the sentences of a page ask for, from sentence s of paragraph p on
RECURSIVE SentenceCalls(_, _, _)
SentenceCalls(page, p, s) ==
    IF p > Len(page.paragraphs) THEN <<>>
    ELSE IF s > Len(page.paragraphs[p].sentences) THEN SentenceCalls(page, p + 1, 1)
    ELSE LET sentence == page.paragraphs[p].sentences[s]
             type == IF "type" \in DOMAIN sentence THEN sentence.type ELSE "narration"
         IN  (IF type = "speaker_name" THEN <<>>
              ELSE <<Sig("json", "sentence", p, s, sentence.text)>>)
             \o SentenceCalls(page, p, s + 1)

\* C18: in a successful page-translation pass the provider calls are exactly:
\* one _simple_translate for the title if the metadata has one, then one for
\* the author if the metadata has one, then one _json_translate for each
\* sentence whose type is not speaker_name, paragraphs in order and sentences
\* in order within each paragraph; every one of them has returned.  At any
\* time of a pass at most one call is outstanding, the last one issued, and
\* the pass is blocked in it.
C18_CallSequence ==
    \A r \in Req :
        /\ IsTranslation(req[r]) =>
              \A i \in 1..Len(req[r].calls) :
                  req[r].calls[i].state = "sent"
                     => i = Len(req[r].calls) /\ req[r].pc = "wait"
        /\ Succeeded(req[r]) =>
              \A expected \in {MetadataCalls(CallerArg(req[r]))
                                  \o SentenceCalls(InputPage(req[r]), 1, 1)} :
                  /\ Len(req[r].calls) = Len(expected)
                  /\ \A i \in 1..Len(expected) :
                        /\ SigOf(req[r].calls[i]) = expected[i]
                        /\ req[r].calls[i].state = "returned"

\* a pass over a page with a speaker name has succeeded with title, author
\* and at least two sentence calls, two consecutive calls being for the
\* sentence before the speaker name and for a sentence after it
C18_Witness ==
    \E r \in Req :
        /\ Succeeded(req[r])
        /\ Len(req[r].calls) >= 4
        /\ req[r].calls[1].field = "title"
        /\ req[r].calls[2].field = "author"
        /\ \E p \in DOMAIN InputPage(req[r]).paragraphs :
           \E s \in DOMAIN InputPage(req[r]).paragraphs[p].sentences :
              /\ "type" \in DOMAIN InputPage(req[r]).paragraphs[p].sentences[s]
              /\ InputPage(req[r]).paragraphs[p].sentences[s].type = "speaker_name"
              /\ \E i \in 1..(Len(req[r].calls) - 1) :
                    /\ <<req[r].calls[i].p, req[r].calls[i].s>> = <<p, s - 1>>
                    /\ \/ req[r].calls[i + 1].p > p
                       \/ req[r].calls[i + 1].p = p /\ req[r].calls[i + 1].s > s

(***************************************************************************)
(* Properties of the fallbacks for answers that are not the expected JSON  *)
(***************************************************************************)
\* A translation is attached to a sentence only when the method that produced
\* it has returned to the loop of _translate_book_data, which then goes on
\* with the next sentence; an exception leaves the sentence without one.

\* the type of the sentence a call was issued for
TypeOf(f, call) ==
    LET sentence == WorkPage(f).paragraphs[call.p].sentences[call.s]
    IN  IF "type" \in DOMAIN sentence THEN sentence.type ELSE "narration"

\* the text parses as a JSON object that contains english_sentences
IsExpectedObject(data) ==
    data.ok /\ data.val.k = "obj" /\ KEY \in DOMAIN data.val.v

\* C19: for a stage_direction sentence, whenever the response does not parse
\* as a JSON object containing english_sentences, the english_translation of
\* the sentence is the one-element list holding the German text, and the pass
\* goes on.  The method catches JSONDecodeError and KeyError only: a response
\* that is valid JSON but no object (a list, a string, a number, null) makes
\* `result.get` raise AttributeError, which ends the pass.
C19_StageDirectionFallback ==
    \A r \in Req :
        Dispatched(req[r]) =>
            \A i \in DOMAIN req[r].calls :
                (/\ req[r].calls[i].kind = "json"
                 /\ req[r].calls[i].state = "returned"
                 /\ TypeOf(req[r], req[r].calls[i]) = "stage_direction") =>
                    \A data \in {json_loads(req[r].calls[i].response)} :
                        ~IsExpectedObject(data) =>
                            Attached(req[r], req[r].calls[i])
                                  = JList(<<JStr(req[r].calls[i].text)>>)

\* C20 as stated, the response being the text the provider answered with: for
\* a sentence of any type but stage_direction and speaker_name, whenever that
\* text does not parse as a JSON object containing english_sentences, the
\* english_translation is the one-element list holding the whole text,
\* trimmed.  The Gemini client hands the engine what its normalizer cut out
\* of the text, and the fallback holds that.
C20_ProviderTextFallback ==
    \A r \in Req :
        Dispatched(req[r]) =>
            \A i \in DOMAIN req[r].calls :
                (/\ req[r].calls[i].kind = "json"
                 /\ req[r].calls[i].state = "returned"
                 /\ TypeOf(req[r], req[r].calls[i]) # "stage_direction") =>
                    \A data \in {json_loads(req[r].calls[i].answer)} :
                        ~IsExpectedObject(data) =>
                            Attached(req[r], req[r].calls[i])
                                  = JList(<<JStr(strip(req[r].calls[i].answer))>>)

\* C20: for a sentence of any type but stage_direction and speaker_name
\* (dialogue, narration, unknown or missing type), whenever the string that
\* _json_translate returns does not parse as a JSON object containing
\* english_sentences, the english_translation of the sentence is the
\* one-element list holding that whole string trimmed of surrounding
\* whitespace, and the pass goes on.
C20_ResponseFallback ==
    \A r \in Req :
        Dispatched(req[r]) =>
            \A i \in DOMAIN req[r].calls :
                (/\ req[r].calls[i].kind = "json"
                 /\ req[r].calls[i].state = "returned"
                 /\ TypeOf(req[r], req[r].calls[i]) # "stage_direction") =>
                    \A data \in {json_loads(req[r].calls[i].response)} :
                        ~IsExpectedObject(data) =>
                            Attached(req[r], req[r].calls[i])
                                  = JList(<<JStr(strip(req[r].calls[i].response))>>)

\* a pass has succeeded in which a sentence of an unknown type got an answer
\* that is plain text with surrounding whitespace, attached trimmed
C20_Witness ==
    \E r \in Req :
        /\ Succeeded(req[r])
        /\ \E i \in DOMAIN req[r].calls :
              /\ req[r].calls[i].kind = "json"
              /\ TypeOf(req[r], req[r].calls[i]) \notin {"stage_direction", "dialogue", "narration"}
              /\ req[r].calls[i].response = <<" ", "Night falls.", NL>>
              /\ Attached(req[r], req[r].calls[i]) = JList(<<JStr(<<"Night falls.">>)>>)

(***************************************************************************)
(* Properties of the numeric parameters of the calls                       *)
(* (temperature is in tenths: 0.1 is 1, 0.7 is 7)                          *)
(***************************************************************************)
\* C21 as stated: every _simple_translate call of a pass uses temperature 0.0
\* and 200 tokens, and every _json_translate call, for every sentence type
\* including stage_direction, temperature 0.1 and between 300 and 400
\* tokens.  The call for a stage direction passes temperature 0.0.
C21_UniformDefaults ==
    \A r \in Req :
        Dispatched(req[r]) =>
            \A i \in DOMAIN req[r].calls :
                /\ req[r].calls[i].kind = "simple"
                      => /\ req[r].calls[i].temperature = 0
                         /\ req[r].calls[i].max_tokens = 200
                /\ req[r].calls[i].kind = "json"
                      => /\ req[r].calls[i].temperature = 1
                         /\ req[r].calls[i].max_tokens \in 300..400

\* C21: every call of a pass carries the fixed parameters of its kind: a
\* _simple_translate call (metadata) temperature 0.0 and 200 tokens; the
\* _json_translate call for a stage_direction sentence temperature 0.0 and
\* 300 tokens; the _json_translate call for a sentence of any other type
\* temperature 0.1 and 400 tokens.
C21_DefaultsByKind ==
    \A r \in Req :
        Dispatched(req[r]) =>
            \A i \in DOMAIN req[r].calls :
                /\ req[r].calls[i].kind \in {"simple", "json"}
                /\ req[r].calls[i].kind = "simple"
                      => /\ req[r].calls[i].temperature = 0
                         /\ req[r].calls[i].max_tokens = 200
                /\ req[r].calls[i].kind = "json"
                      => IF TypeOf(req[r], req[r].calls[i]) = "stage_direction"
                         THEN /\ req[r].calls[i].temperature = 0
                              /\ req[r].calls[i].max_tokens = 300
                         ELSE /\ req[r].calls[i].temperature = 1
                              /\ req[r].calls[i].max_tokens = 400

\* a pass has issued a metadata call, the call for a stage direction and the
\* call for a dialogue sentence
C21_Witness ==
    \E r \in Req :
        /\ Dispatched(req[r])
        /\ \E i, j, k \in DOMAIN req[r].calls :
              /\ req[r].calls[i].kind = "simple"
              /\ req[r].calls[j].kind = "json"
              /\ TypeOf(req[r], req[r].calls[j]) = "stage_direction"
              /\ req[r].calls[j].max_tokens = 300
              /\ req[r].calls[k].kind = "json"
              /\ TypeOf(req[r], req[r].calls[k]) = "dialogue"
              /\ req[r].calls[k].max_tokens = 400

(***************************************************************************)
(* Properties of the response normalizer                                   *)
(***************************************************************************)
\* the candidates that json.loads accepts, in their order
ThatParse(matches) == SelectSeq(matches, LAMBDA m : json_loads(m).ok)

\* a call of the normalizer that has returned
Extracted(f) == f.op = "extract" /\ f.pc = "done"

\* C22 as stated: the result of the normalizer either parses as JSON or is
\* the trimmed input, and the normalizer applied to its own result returns
\* that result unchanged.  A fenced block may hold an object with an inner
\* object that holds the key: the first application returns the block, the
\* second finds the inner object with the raw-object pattern and returns that.
C22_Idempotent ==
    \A r \in Req :
        Extracted(req[r]) =>
            \A parsed \in {json_loads(req[r].result.body)} :
                /\ parsed.ok \/ req[r].result.body = strip(req[r].arg.response_text)
                /\ req[r].loc.applied >= 1
                      => req[r].result.body = req[r].arg.response_text

\* C22: the normalizer tries its strategies in a fixed order and the first
\* success wins: the result is the first match of the fenced-block pattern
\* (a json-labelled fence around a brace-delimited group) that parses as
\* JSON if there is one, otherwise the first match of the raw-object pattern
\* (a brace-delimited, brace-free run holding the quoted key) that parses,
\* otherwise the text trimmed.  So the result parses as JSON or is the
\* trimmed text.  Applied to its own result it never takes the fenced
\* strategy; it returns the result unchanged or an object inside it found by
\* the raw-object pattern, and from the second application on the result
\* does not change any more.
C22_StrategyOrder ==
    \A r \in Req :
        Extracted(req[r]) =>
            \A text \in {req[r].arg.response_text} :
            \A fenced \in {ThatParse(findall_fenced(text, 1))} :
            \A raw \in {ThatParse(findall_raw(text, 1))} :
            \A parsed \in {json_loads(req[r].result.body)} :
                LET out == req[r].result.body IN
                /\ out = IF fenced # <<>> THEN fenced[1]
                         ELSE IF raw # <<>> THEN raw[1]
                         ELSE strip(text)
                /\ parsed.ok \/ out = strip(text)
                /\ req[r].loc.applied >= 1
                      => /\ fenced = <<>>
                         /\ out = text \/ (raw # <<>> /\ out = raw[1] /\ Len(out) < Len(text))
                /\ req[r].loc.applied >= 2 => out = text

\* the normalizer has returned the content of a fenced block although a raw
\* object that parses stands before it in the text
C22_Witness ==
    \E r \in Req :
        /\ Extracted(req[r])
        /\ req[r].loc.applied = 0
        /\ req[r].arg.response_text[1] = "{"
        /\ \E raw \in {ThatParse(findall_raw(req[r].arg.response_text, 1))} :
              /\ raw # <<>>
              /\ raw[1] = Sentences(<<"[", "]">>)
              /\ req[r].result.body = OneSentence

(***************************************************************************)
(* Properties of the log                                                   *)
(***************************************************************************)
\* the calls of a pass whose response did not parse as the expected object,
\* so that the engine had to fall back to the raw or the German text
Degraded(f) ==
    { i \in DOMAIN f.calls :
         /\ f.calls[i].kind = "json"
         /\ f.calls[i].state = "returned"
         /\ \E data \in {json_loads(f.calls[i].response)} : ~IsExpectedObject(data) }

\* C23: every time the engine falls back to raw or source text because the
\* structured response did not parse, the event is recorded in the log (one
\* line at least for each such call of the pass), and the pass goes on: the
\* fallback is attached to the sentence.  The except blocks of
\* _translate_stage_direction_sentences and _translate_and_split_with_context
\* return the fallback and write nothing, and no other code of the pass does.
C23_ParseDegradedLogged ==
    \A r \in Req :
        Dispatched(req[r]) =>
            \A degraded \in {Degraded(req[r])} :
                /\ Len(req[r].log) >= Cardinality(degraded)
                /\ \A i \in degraded : Attached(req[r], req[r].calls[i]) # JNull

(***************************************************************************)
(* Properties of the provider a result names                               *)
(***************************************************************************)
\* C24: the provider field of a chat result names the provider whose client
\* produced the response text of that result, under every interleaving with
\* a concurrent switch_provider.  chat reads the global llm_service once for
\* the call and once more for get_provider_info(); a switch that assigns the
\* global in between makes the result name the new provider next to the old
\* client's text.
C24_ChatNamesItsProvider ==
    \A r \in Req :
        (/\ req[r].op = "chat"
         /\ req[r].pc = "done"
         /\ req[r].result.status = 200)
           => /\ Len(req[r].calls) = 1
              /\ req[r].calls[1].state = "returned"
              /\ req[r].result.body.response = req[r].calls[1].response
              /\ req[r].result.body.provider
                    = get_provider_info(req[r].calls[1].client).provider

\* C25: the provider identifier in a translate() result is the identifier
\* the same client reports through get_provider_info() and the one
\* create_service and switch_provider accept for that client, so that the
\* value can be fed back into switch_provider.  The result carries
\* get_provider_name(), which for the Gemini client is 'gemini', while its
\* info and the factory say 'google'.
C25_ResultProviderIsFactoryId ==
    \A r \in Req :
        Succeeded(req[r]) =>
            LET name == req[r].result.body.provider
                made == create_service([OPENAI_API_KEY |-> "key", GEMINI_API_KEY |-> "key"],
                                       name, req[r].client.inst, TRUE)
            IN  /\ name = get_provider_info(req[r].client).provider
                /\ made.ok
                /\ made.service = req[r].client

=============================================================================
